---- MODULE Spec2Model ----
(***************************************************************************)
(* A model of autoflake (src/autoflake.py): the per-line rewrite loop      *)
(* filter_code, the multi-line import accumulator FilterMultilineImport,   *)
(* the useless-pass remover, the fixed-point driver fix_code and the       *)
(* command-line wrapper _fix_file.                                         *)
(*                                                                         *)
(* Text is a sequence of atoms.  An atom is a word (keyword, identifier,   *)
(* number), one punctuation character, one blank, one indentation unit,    *)
(* one newline, a whole comment or a whole string literal.  Python's       *)
(* string operations are modelled on atoms: "c in line" looks at the       *)
(* characters an atom holds (CharsOf), split/strip work on whitespace      *)
(* atoms, and so on.                                                       *)
(*                                                                         *)
(* A function of the program is an operator of the same name.  Where the   *)
(* operator is written  F(x_) == CHOOSE returned \in {e : x \in {x_}} : TRUE *)
(* its value is e, the body of the function, with the argument x_          *)
(* evaluated once and named x, as a call evaluates its arguments.          *)
(***************************************************************************)
EXTENDS Integers, Sequences, FiniteSets, TLC

SP == " "
IND == "    "
NL == "\n"
BS == "\\"
HASH == "#"
StrParen == "\"(\""
DocString == "\"\"\"doc\"\"\""
StrX == "\"x\""
StrY == "\"y\""
Strings == {StrParen, DocString, StrX, StrY}
Numbers == {"1", "2"}
NoqaComment == "# noqa"
SkipComment == "# autoflake: skip_file"
Comments == {NoqaComment, SkipComment}
Whitespace == {SP, IND, NL}

\* The characters of an atom that the program tests for with "in"/find.
CharsOf(a) ==
    CASE a = StrParen -> {"(", "\""}
      [] a = DocString -> {"\""}
      [] a \in {StrX, StrY} -> {"\""}
      [] a = NoqaComment -> {HASH}
      [] a = SkipComment -> {HASH, ":"}
      [] OTHER -> {a}

\* ASCII order of the atoms, for sorted(): an atom's rank is its position.
AtomOrder ==
    << NL, SP, IND, DocString, StrParen, StrX, StrY, NoqaComment, SkipComment,
       "(", ")", "*", ",", ".", "1", "2", ":", ";", "=", "True", "[", BS, "]",
       "__all__", "a", "as", "def", "del", "dict", "f", "fake_bar", "foo",
       "from", "g", "if", "import", "list", "mylib", "nonlocal", "nonlocal_lib",
       "os", "pass", "path", "re", "sep", "set", "this", "x", "y", "{", "}" >>

Atoms == {AtomOrder[i] : i \in DOMAIN AtomOrder}

Rank(a) == CHOOSE i \in DOMAIN AtomOrder : AtomOrder[i] = a

\* s < t in the order sorted() uses on strings.
RECURSIVE StrLess(_, _)
StrLess(s_, t_) ==
    CHOOSE returned \in {
        IF t = <<>> THEN FALSE
        ELSE IF s = <<>> THEN TRUE
        ELSE IF s[1] = t[1] THEN StrLess(Tail(s), Tail(t))
        ELSE Rank(s[1]) < Rank(t[1])
        : s \in {s_}, t \in {t_} } : TRUE

\* sorted(list): insertion sort, stable.
RECURSIVE Insert(_, _)
Insert(x_, sorted_) ==
    CHOOSE returned \in {
        IF sorted = <<>> THEN <<x>>
        ELSE IF StrLess(x, sorted[1]) THEN <<x>> \o sorted
        ELSE <<sorted[1]>> \o Insert(x, Tail(sorted))
        : x \in {x_}, sorted \in {sorted_} } : TRUE

RECURSIVE Sorted(_)
Sorted(list_) ==
    CHOOSE returned \in {
        IF list = <<>> THEN <<>>
        ELSE Insert(list[Len(list)], Sorted(SubSeq(list, 1, Len(list) - 1)))
        : list \in {list_} } : TRUE

\* "".join(parts)
RECURSIVE Join(_)
Join(parts_) ==
    CHOOSE returned \in {
        IF parts = <<>> THEN <<>> ELSE parts[1] \o Join(Tail(parts))
        : parts \in {parts_} } : TRUE

\* sep.join(parts)
RECURSIVE JoinWith(_, _)
JoinWith(sep_, parts_) ==
    CHOOSE returned \in {
        IF parts = <<>> THEN <<>>
        ELSE IF Len(parts) = 1 THEN parts[1]
        ELSE parts[1] \o sep \o JoinWith(sep, Tail(parts))
        : sep \in {sep_}, parts \in {parts_} } : TRUE

\* The string an atom sequence spells (used for package names).
RECURSIVE Spell(_)
Spell(t_) ==
    CHOOSE returned \in {
        IF t = <<>> THEN "" ELSE t[1] \o Spell(Tail(t))
        : t \in {t_} } : TRUE

\* c in text
HasChar(c, t) == \E i \in DOMAIN t : c \in CharsOf(t[i])

\* text.find(c): a position that orders characters, -1 when absent.  Inside
\* a comment atom the "#" comes first.
Find(c, t) ==
    IF ~HasChar(c, t) THEN -1
    ELSE LET i == CHOOSE k \in DOMAIN t :
                      /\ c \in CharsOf(t[k])
                      /\ \A j \in 1..(k - 1) : c \notin CharsOf(t[j])
         IN 2 * i + (IF t[i] \in Comments /\ c # HASH THEN 1 ELSE 0)

\* text.lstrip(chars), text.rstrip(chars), text.strip(chars)
RECURSIVE LStripSet(_, _)
LStripSet(t_, chars_) ==
    CHOOSE returned \in {
        IF t # <<>> /\ t[1] \in chars THEN LStripSet(Tail(t), chars) ELSE t
        : t \in {t_}, chars \in {chars_} } : TRUE

RECURSIVE RStripSet(_, _)
RStripSet(t_, chars_) ==
    CHOOSE returned \in {
        IF t # <<>> /\ t[Len(t)] \in chars
        THEN RStripSet(SubSeq(t, 1, Len(t) - 1), chars)
        ELSE t
        : t \in {t_}, chars \in {chars_} } : TRUE

StripSet(t, chars) == LStripSet(RStripSet(t, chars), chars)
LStrip(t) == LStripSet(t, Whitespace)
RStrip(t) == RStripSet(t, Whitespace)
Strip(t) == StripSet(t, Whitespace)

\* io.StringIO(text).readlines(): cut after every newline.
RECURSIVE ReadLinesFrom(_, _)
ReadLinesFrom(t_, cur_) ==
    CHOOSE returned \in {
        IF t = <<>> THEN (IF cur = <<>> THEN <<>> ELSE <<cur>>)
        ELSE IF t[1] = NL THEN <<cur \o <<NL>> >> \o ReadLinesFrom(Tail(t), <<>>)
        ELSE ReadLinesFrom(Tail(t), cur \o <<t[1]>>)
        : t \in {t_}, cur \in {cur_} } : TRUE

ReadLines(t) == ReadLinesFrom(t, <<>>)

\* text.split(): the maximal runs of non-whitespace atoms.
RECURSIVE WordsFrom(_, _)
WordsFrom(t_, cur_) ==
    CHOOSE returned \in {
        IF t = <<>> THEN (IF cur = <<>> THEN <<>> ELSE <<cur>>)
        ELSE IF t[1] \in Whitespace
             THEN (IF cur = <<>> THEN <<>> ELSE <<cur>>) \o WordsFrom(Tail(t), <<>>)
        ELSE WordsFrom(Tail(t), cur \o <<t[1]>>)
        : t \in {t_}, cur \in {cur_} } : TRUE

Words(t) == WordsFrom(t, <<>>)

\* text.split(c) for a one-character separator atom c.
RECURSIVE SplitOnFrom(_, _, _)
SplitOnFrom(t_, c_, cur_) ==
    CHOOSE returned \in {
        IF t = <<>> THEN <<cur>>
        ELSE IF t[1] = c THEN <<cur>> \o SplitOnFrom(Tail(t), c, <<>>)
        ELSE SplitOnFrom(Tail(t), c, cur \o <<t[1]>>)
        : t \in {t_}, c \in {c_}, cur \in {cur_} } : TRUE

SplitOn(t, c) == SplitOnFrom(t, c, <<>>)

\* text.count(c)
RECURSIVE Count(_, _)
Count(c_, t_) ==
    CHOOSE returned \in {
        IF t = <<>> THEN 0
        ELSE (IF c \in CharsOf(t[1]) THEN 1 ELSE 0) + Count(c, Tail(t))
        : c \in {c_}, t \in {t_} } : TRUE

\* Index of the first atom equal to w, 0 when there is none.
FirstIndex(w, t) ==
    IF \E i \in DOMAIN t : t[i] = w
    THEN CHOOSE i \in DOMAIN t : t[i] = w /\ \A j \in 1..(i - 1) : t[j] # w
    ELSE 0

get_indentation(line) ==
    IF Strip(line) # <<>>
    THEN SubSeq(line, 1, Len(line) - Len(LStrip(line)))
    ELSE <<>>

\* The line ending written twice, to compare with.
get_line_ending_Twice(line) ==
    SubSeq(line, Len(RStrip(line)) + 1, Len(line))
    \o SubSeq(line, Len(RStrip(line)) + 1, Len(line))

get_line_ending(line) ==
    SubSeq(line, Len(RStrip(line)) + 1, Len(line))


(***************************************************************************)
(* Safety policy                                                           *)
(***************************************************************************)
\* standard_package_names(): the standard-library modules of the host.
StandardPackageNames == {"os", "re", "this", "antigravity", "rlcompleter", "sys"}

IMPORTS_WITH_SIDE_EFFECTS == {"antigravity", "rlcompleter", "this"}

BINARY_IMPORTS ==
    {"datetime", "grp", "io", "json", "math", "multiprocessing", "parser",
     "pwd", "string", "operator", "os", "sys", "time"}

\* A safe set that keeps the modules with side effects, to compare with.
SAFE_IMPORTS_NoDenylist == StandardPackageNames \cup BINARY_IMPORTS

SAFE_IMPORTS ==
    (StandardPackageNames \ IMPORTS_WITH_SIDE_EFFECTS) \cup BINARY_IMPORTS

(***************************************************************************)
(* Line tests                                                              *)
(***************************************************************************)
\* tokenize.generate_tokens succeeds on the text: no bracket is left open
\* at the end of the text (brackets inside string literals do not count).
RECURSIVE ParenLevel(_)
ParenLevel(t_) ==
    CHOOSE returned \in {
        IF t = <<>> THEN 0
        ELSE (IF t[Len(t)] \in {"(", "[", "{"} THEN 1
              ELSE IF t[Len(t)] \in {")", "]", "}"} THEN -1 ELSE 0)
             + ParenLevel(SubSeq(t, 1, Len(t) - 1))
        : t \in {t_} } : TRUE

Tokenizes(t) == ParenLevel(t) = 0

\* text.rstrip().endswith("\\")
EndsWithBackslash(t) == RStrip(t) # <<>> /\ RStrip(t)[Len(RStrip(t))] = BS

\* multiline_statement without its loop over the symbols, to compare with.
multiline_statement_TokensOnly(line, previous_line) ==
    IF Tokenizes(line) THEN EndsWithBackslash(previous_line) ELSE TRUE

multiline_statement(line, previous_line) ==
    IF HasChar(BS, line) \/ HasChar(":", line) \/ HasChar(";", line) THEN TRUE
    ELSE IF Tokenizes(line) THEN EndsWithBackslash(previous_line)
    ELSE TRUE

multiline_import(line, previous_line) ==
    IF HasChar("(", line) \/ HasChar(")", line) THEN TRUE
    ELSE multiline_statement(line, previous_line)

\* line.lstrip().startswith(word)
StartsWith(line, word) == LStrip(line) # <<>> /\ LStrip(line)[1] = word

\* word.split(".")[0], spelled
FirstDotPart(word) ==
    LET i == FirstIndex(".", word)
    IN Spell(IF i = 0 THEN word ELSE SubSeq(word, 1, i - 1))

NoPackage == "<None>"

extract_package_name(line_) ==
    CHOOSE returned \in {
        IF StartsWith(line, "import") \/ StartsWith(line, "from")
        THEN FirstDotPart(Words(line)[2])
        ELSE NoPackage
        : line \in {line_} } : TRUE

\* The assert statements of extract_package_name.
extract_package_name_asserts(line) ==
    /\ ~HasChar(BS, line)
    /\ ~HasChar("(", line)
    /\ ~HasChar(")", line)
    /\ ~HasChar(";", line)
    /\ (StartsWith(line, "import") \/ StartsWith(line, "from"))
          => SP \notin CharsOf(extract_package_name(line))

_valid_char_in_line(char, line) ==
    LET comment_index == Find(HASH, line)
        char_index == Find(char, line)
    IN char_index >= 0 /\ (comment_index > char_index \/ comment_index < 0)

LOCAL_MODULE == "%LOCAL_MODULE%"

_top_module(module_name_) ==
    CHOOSE returned \in {
        IF module_name[1] = "." THEN LOCAL_MODULE ELSE FirstDotPart(module_name)
        : module_name \in {module_name_} } : TRUE

\* [x for x in list if keep(x)], for the two filters below
RECURSIVE SelectSafe(_, _)
SelectSafe(list_, safe_to_remove_) ==
    CHOOSE returned \in {
        IF list = <<>> THEN <<>>
        ELSE (IF _top_module(list[1]) \in safe_to_remove THEN <<list[1]>> ELSE <<>>)
             \o SelectSafe(Tail(list), safe_to_remove)
        : list \in {list_}, safe_to_remove \in {safe_to_remove_} } : TRUE

_modules_to_remove(unused_modules, safe_to_remove) ==
    SelectSafe(unused_modules, safe_to_remove)

InList(x, list) == \E i \in DOMAIN list : list[i] = x

\* parent is <<>> for None
full_name(name_, parent_) ==
    CHOOSE returned \in {
        IF parent = <<>> THEN name
        ELSE parent \o (IF parent[Len(parent)] = "." THEN <<>> ELSE <<".">>) \o name
        : name \in {name_}, parent \in {parent_} } : TRUE

RECURSIVE _filter_imports(_, _, _)
_filter_imports(imports_, parent_, unused_module_) ==
    CHOOSE returned \in {
        IF imports = <<>> THEN <<>>
        ELSE (IF InList(full_name(imports[1], parent), unused_module)
              THEN <<>> ELSE <<imports[1]>>)
             \o _filter_imports(Tail(imports), parent, unused_module)
        : imports \in {imports_}, parent \in {parent_},
          unused_module \in {unused_module_} } : TRUE

\* re.split(r"\bimport\b", text, maxsplit=1): <<before, after>>
SplitImport(text_) ==
    CHOOSE returned \in {
        LET i == FirstIndex("import", text)
        IN << SubSeq(text, 1, i - 1), SubSeq(text, i + 1, Len(text)) >>
        : text \in {text_} } : TRUE

\* re.search(r"\bfrom\s+([^ ]+)", text).group(1); <<>> when there is no match
RECURSIVE TakeUntilSpace(_)
TakeUntilSpace(t_) ==
    CHOOSE returned \in {
        IF t = <<>> \/ t[1] \in {SP, IND} THEN <<>>
        ELSE <<t[1]>> \o TakeUntilSpace(Tail(t))
        : t \in {t_} } : TRUE

BaseOf(text) ==
    LET i == FirstIndex("from", text)
        rest == SubSeq(text, i + 1, Len(text))
    IN IF i = 0 \/ rest = <<>> \/ rest[1] \notin Whitespace THEN <<>>
       ELSE TakeUntilSpace(LStrip(rest))

RECURSIVE StripEach(_)
StripEach(list_) ==
    CHOOSE returned \in {
        IF list = <<>> THEN <<>> ELSE <<Strip(list[1])>> \o StripEach(Tail(list))
        : list \in {list_} } : TRUE

filter_from_import(line_, unused_module_) ==
    CHOOSE returned \in {
        LET parts == SplitImport(line)
            indentation == parts[1]
            base_module == BaseOf(indentation)
            imports == StripEach(SplitOn(Strip(parts[2]), ","))
            filtered_imports == _filter_imports(imports, base_module, unused_module)
        IN IF filtered_imports = <<>>
           THEN get_indentation(line) \o <<"pass">> \o get_line_ending(line)
           ELSE indentation \o <<"import", SP>>
                \o JoinWith(<<",", SP>>, Sorted(filtered_imports))
                \o get_line_ending(line)
        : line \in {line_}, unused_module \in {unused_module_} } : TRUE

RECURSIVE OneImportPerLine(_, _, _)
OneImportPerLine(list_, indentation_, newline_) ==
    CHOOSE returned \in {
        IF list = <<>> THEN <<>>
        ELSE indentation \o Strip(list[1]) \o newline
             \o OneImportPerLine(Tail(list), indentation, newline)
        : list \in {list_}, indentation \in {indentation_},
          newline \in {newline_} } : TRUE

\* The assert statements of break_up_import.
break_up_import_asserts(line) ==
    /\ ~HasChar(BS, line)
    /\ ~HasChar("(", line)
    /\ ~HasChar(")", line)
    /\ ~HasChar(";", line)
    /\ ~HasChar(HASH, line)
    /\ ~StartsWith(line, "from")

break_up_import(line_) ==
    CHOOSE returned \in {
        LET newline == get_line_ending(line)
            parts == SplitImport(line)
        IN IF newline = <<>> THEN line
           ELSE OneImportPerLine(Sorted(SplitOn(parts[2], ",")),
                                 parts[1] \o <<"import", SP>>, newline)
        : line \in {line_} } : TRUE

(***************************************************************************)
(* FilterMultilineImport (a PendingFix)                                    *)
(***************************************************************************)
\* Length of the longest prefix of t made of atoms in S / not in S.
RECURSIVE RunIn(_, _)
RunIn(t_, S_) ==
    CHOOSE returned \in {
        IF t # <<>> /\ t[1] \in S THEN 1 + RunIn(Tail(t), S) ELSE 0
        : t \in {t_}, S \in {S_} } : TRUE

RECURSIVE RunNotIn(_, _)
RunNotIn(t_, S_) ==
    CHOOSE returned \in {
        IF t # <<>> /\ t[1] \notin S THEN 1 + RunNotIn(Tail(t), S) ELSE 0
        : t \in {t_}, S \in {S_} } : TRUE

Drop(t, n) == SubSeq(t, n + 1, Len(t))

\* SEGMENT_RE = ([^,\s]+(?:[\s\\]+as[\s\\]+[^,\s]+)?[,\s\\)]*)
\* Length of the match that starts at the head of t (t[1] is no comma and
\* no whitespace).
NotName == Whitespace \cup {","}
Gap == Whitespace \cup {BS}

\* The tail [,\s\\)]* after a core of the given length.
SegmentTail(t_, core_) ==
    CHOOSE returned \in {
        core + RunIn(Drop(t, core), Whitespace \cup {",", BS, ")"})
        : t \in {t_}, core \in {core_} } : TRUE

\* The optional group: g1 atoms of gap after the name of n1 atoms, "as",
\* g2 atoms of gap and an alias of n2 atoms.
SegmentAlias(t_, n1_, g1_, g2_, n2_) ==
    CHOOSE returned \in {
        IF g1 >= 1 /\ Len(t) > n1 + g1 /\ t[n1 + g1 + 1] = "as" /\ g2 >= 1 /\ n2 >= 1
        THEN SegmentTail(t, n1 + g1 + 1 + g2 + n2)
        ELSE SegmentTail(t, n1)
        : t \in {t_}, n1 \in {n1_}, g1 \in {g1_}, g2 \in {g2_},
          n2 \in {n2_} } : TRUE

SegmentAfterAs(t_, n1_, g1_, g2_) ==
    CHOOSE returned \in {
        SegmentAlias(t, n1, g1, g2, RunNotIn(Drop(t, n1 + g1 + 1 + g2), NotName))
        : t \in {t_}, n1 \in {n1_}, g1 \in {g1_}, g2 \in {g2_} } : TRUE

SegmentGap(t_, n1_, g1_) ==
    CHOOSE returned \in {
        SegmentAfterAs(t, n1, g1, RunIn(Drop(t, n1 + g1 + 1), Gap))
        : t \in {t_}, n1 \in {n1_}, g1 \in {g1_} } : TRUE

SegmentName(t_, n1_) ==
    CHOOSE returned \in {
        SegmentGap(t, n1, RunIn(Drop(t, n1), Gap))
        : t \in {t_}, n1 \in {n1_} } : TRUE

SegmentLength(t) == SegmentName(t, RunNotIn(t, NotName))

\* SEGMENT_RE.findall(text)
RECURSIVE Segments(_)
SegmentsAt(u_, n_) ==
    CHOOSE returned \in {
        IF u = <<>> THEN <<>> ELSE <<SubSeq(u, 1, n)>> \o Segments(Drop(u, n))
        : u \in {u_}, n \in {n_} } : TRUE

SegmentsFrom(u) == SegmentsAt(u, IF u = <<>> THEN 0 ELSE SegmentLength(u))

Segments(t_) ==
    CHOOSE returned \in {
        SegmentsFrom(LStripSet(t, Whitespace \cup {","}))
        : t \in {t_} } : TRUE

SegmentStrip == Whitespace \cup {",", BS, "(", ")"}

OrElse(text_, other_) ==
    CHOOSE returned \in {
        IF text # <<>> THEN text ELSE other
        : text \in {text_}, other \in {other_} } : TRUE

_segment_module(segment) == OrElse(StripSet(segment, SegmentStrip), segment)

RECURSIVE SegmentModules(_)
SegmentModules(segments_) ==
    CHOOSE returned \in {
        IF segments = <<>> THEN <<>>
        ELSE <<_segment_module(segments[1])>> \o SegmentModules(Tail(segments))
        : segments \in {segments_} } : TRUE

\* template.replace(module, new): the module is the segment without the
\* characters _segment_module stripped at its two ends (or the whole
\* segment), so it occurs once.
ReplaceModule(segment_, module_, new_) ==
    CHOOSE returned \in {
        IF module = segment THEN new
        ELSE LET left == Len(segment) - Len(LStripSet(segment, SegmentStrip))
             IN SubSeq(segment, 1, left) \o new
                \o Drop(segment, left + Len(module))
        : segment \in {segment_}, module \in {module_}, new \in {new_} } : TRUE

\* __init__: analyse and store the first line.  base is <<>> for None.
FilterMultilineImportInit(line_, unused_module_, remove_all_unused_imports_, safe_to_remove_, previous_line_) ==
    CHOOSE returned \in {
        LET from_ == SplitImport(line)[1]
            imports == LStrip(SplitImport(line)[2])
            base == BaseOf(from_)
            unsafeBase == base # <<>> /\ _top_module(base) \notin safe_to_remove
        IN [ remove |-> IF remove_all_unused_imports \/ unsafeBase
                        THEN unused_module
                        ELSE _modules_to_remove(unused_module, safe_to_remove),
             parenthesized |-> HasChar("(", line),
             from_ |-> from_,
             base |-> base,
             give_up |-> \/ (~remove_all_unused_imports /\ unsafeBase)
                         \/ HasChar(BS, previous_line)
                         \/ HasChar(";", line) \/ HasChar(":", line)
                         \/ HasChar(HASH, line),
             accumulator |-> <<imports>> ]
        : line \in {line_}, unused_module \in {unused_module_},
          remove_all_unused_imports \in {remove_all_unused_imports_}, safe_to_remove \in {safe_to_remove_}, previous_line \in {previous_line_} } : TRUE

\* is_over(line): a missing or empty line means the last accumulated one
is_over(self_, line_) ==
    CHOOSE returned \in {
        LET l == IF line = <<>> THEN self.accumulator[Len(self.accumulator)] ELSE line
        IN IF self.parenthesized THEN _valid_char_in_line(")", l)
           ELSE ~_valid_char_in_line(BS, l)
        : self \in {self_}, line \in {line_} } : TRUE

\* analyze(line): the new value of give_up
analyze(self, line) ==
    self.give_up \/ HasChar(";", line) \/ HasChar(":", line) \/ HasChar(HASH, line)

RECURSIVE FillTemplates(_, _, _)
FillTemplates(templates_, keep_, i_) ==
    CHOOSE returned \in {
        IF i > Len(templates) THEN <<>>
        ELSE ReplaceModule(templates[i][2], templates[i][1], keep[i])
             \o FillTemplates(templates, keep, i + 1)
        : templates \in {templates_}, keep \in {keep_}, i \in {i_} } : TRUE

\* fix, from the end: the text returned for the fixed import list.
FixReturn(self_, old_imports_, ending_, all_kept_, fixed_) ==
    CHOOSE returned \in {
        IF all_kept THEN self.from_ \o <<"import", SP>> \o old_imports
        ELSE IF StripSet(fixed, Whitespace \cup {BS, "(", ")", ","}) = <<>>
        THEN SubSeq(self.from_, 1, RunIn(self.from_, Whitespace))
             \o <<"pass">> \o ending
        ELSE self.from_ \o <<"import", SP>> \o fixed
        : self \in {self_}, old_imports \in {old_imports_},
          ending \in {ending_}, all_kept \in {all_kept_}, fixed \in {fixed_} } : TRUE

\* fix: a parenthesis left alone after the removal is removed as well.
FixParentheses(self_, old_imports_, ending_, all_kept_, any_kept_, filled_) ==
    CHOOSE returned \in {
        FixReturn(self, old_imports, ending, all_kept,
                  IF /\ any_kept
                     /\ self.parenthesized
                     /\ (~HasChar("(", filled) \/ ~HasChar(")", filled))
                  THEN StripSet(filled, Whitespace \cup {"(", ")"}) \o ending
                  ELSE filled)
        : self \in {self_}, old_imports \in {old_imports_},
          ending \in {ending_}, all_kept \in {all_kept_}, any_kept \in {any_kept_}, filled \in {filled_} } : TRUE

\* fix: the templates are the first len(keep) - 1 segments and the last one.
FixTemplates(self_, old_imports_, ending_, zipped_, keep_) ==
    CHOOSE returned \in {
        FixParentheses(self, old_imports, ending, Len(keep) = Len(zipped),
                       keep # <<>>,
                       IF keep = <<>> THEN <<>>
                       ELSE FillTemplates(SubSeq(zipped, 1, Len(keep) - 1)
                                          \o SubSeq(zipped, Len(zipped), Len(zipped)),
                                          keep, 1))
        : self \in {self_}, old_imports \in {old_imports_},
          ending \in {ending_}, zipped \in {zipped_}, keep \in {keep_} } : TRUE

FixModules(self_, old_imports_, segments_, modules_) ==
    CHOOSE returned \in {
        FixTemplates(self, old_imports, get_line_ending(old_imports),
                     [i \in DOMAIN segments |-> <<modules[i], segments[i]>>],
                     _filter_imports(modules, self.base, self.remove))
        : self \in {self_}, old_imports \in {old_imports_},
          segments \in {segments_}, modules \in {modules_} } : TRUE

FixSegments(self_, old_imports_, segments_) ==
    CHOOSE returned \in {
        FixModules(self, old_imports, segments, SegmentModules(segments))
        : self \in {self_}, old_imports \in {old_imports_},
          segments \in {segments_} } : TRUE

fix(self_, accumulated_) ==
    CHOOSE returned \in {
        FixSegments(self, Join(accumulated), Segments(Join(accumulated)))
        : self \in {self_}, accumulated \in {accumulated_} } : TRUE

\* The result of a rewrite helper: a text, or a PendingFix to feed further.
NoFix ==
    [ remove |-> <<>>, parenthesized |-> FALSE, from_ |-> <<>>, base |-> <<>>,
      give_up |-> FALSE, accumulator |-> <<>> ]

TextResult(t) == [pending |-> FALSE, text |-> t, fix |-> NoFix]
PendingResult(f) == [pending |-> TRUE, text |-> <<>>, fix |-> f]

\* __call__(line): accumulate the line (none on the first call, <<>>) and,
\* when the statement is over, emit the final text.
FilterMultilineImportEmit(fed_, line_) ==
    CHOOSE returned \in {
        IF ~is_over(fed, line) THEN PendingResult(fed)
        ELSE IF fed.give_up
        THEN TextResult(fed.from_ \o <<"import", SP>> \o Join(fed.accumulator))
        ELSE TextResult(fix(fed, fed.accumulator))
        : fed \in {fed_}, line \in {line_} } : TRUE

FilterMultilineImportCall(self_, line_) ==
    CHOOSE returned \in {
        FilterMultilineImportEmit(
            IF line # <<>>
            THEN [self EXCEPT !.accumulator = Append(@, line),
                              !.give_up = analyze(self, line)]
            ELSE self,
            line)
        : self \in {self_}, line \in {line_} } : TRUE

(***************************************************************************)
(* Single-line rewrites                                                    *)
(***************************************************************************)
filter_unused_import(line_, unused_module_, remove_all_unused_imports_, imports_, previous_line_) ==
    CHOOSE returned \in {
        IF StartsWith(line, ">") THEN TextResult(line)
        ELSE IF multiline_import(line, previous_line)
        THEN FilterMultilineImportCall(
                 FilterMultilineImportInit(line, unused_module,
                                           remove_all_unused_imports, imports,
                                           previous_line),
                 <<>>)
        ELSE IF HasChar(",", line) /\ ~StartsWith(line, "from")
        THEN TextResult(break_up_import(line))
        ELSE IF ~remove_all_unused_imports /\ extract_package_name(line) \notin imports
        THEN TextResult(line)
        ELSE IF HasChar(",", line)
        THEN TextResult(filter_from_import(line, unused_module))
        ELSE TextResult(get_indentation(line) \o <<"pass">> \o get_line_ending(line))
        : line \in {line_}, unused_module \in {unused_module_},
          remove_all_unused_imports \in {remove_all_unused_imports_}, imports \in {imports_}, previous_line \in {previous_line_} } : TRUE

Punctuation == {"(", ")", "*", ",", ".", ":", ";", "=", BS, ">", "[", "]", "{", "}"}

\* \w+ : an identifier, a keyword or a number
IsWord(a) ==
    a \notin Punctuation \cup Whitespace \cup Comments \cup Strings

\* EXCEPT_REGEX = ^\s*except [\s,()\w]+ as \w+:$
MatchesExcept(line) ==
    LET t == LStrip(IF line # <<>> /\ line[Len(line)] = NL
                    THEN SubSeq(line, 1, Len(line) - 1) ELSE line)
        n == Len(t)
    IN /\ n >= 8
       /\ t[1] = "except" /\ t[2] = SP
       /\ t[n] = ":" /\ IsWord(t[n - 1]) /\ t[n - 2] = SP
       /\ t[n - 3] = "as" /\ t[n - 4] = SP
       /\ \A i \in 3..(n - 5) :
              t[i] \in Whitespace \cup {",", "(", ")"} \/ IsWord(t[i])

\* re.sub(r" as \w+:$", ":", line, count=1)
DropExceptName(line) ==
    LET nl == IF line[Len(line)] = NL THEN <<NL>> ELSE <<>>
        t == SubSeq(line, 1, Len(line) - Len(nl))
    IN SubSeq(t, 1, Len(t) - 5) \o <<":">> \o nl

Literals == Numbers \cup Strings \cup {"True"}

\* ast.literal_eval(text): [ok, value]; the value of a literal is written
\* as its atoms without blanks.  Literals here are numbers, strings, True,
\* tuples of them and the empty dict and list.
literal_eval(text_) ==
    CHOOSE returned \in {
        LET e == SelectSeq(text, LAMBDA a : a \notin Whitespace)
            inner == SubSeq(e, 2, Len(e) - 1)
        IN [ ok |-> \/ (Len(e) = 1 /\ e[1] \in Literals)
                    \/ e \in {<<"{", "}">>, <<"[", "]">>}
                    \/ /\ Len(e) >= 3 /\ e[1] = "(" /\ e[Len(e)] = ")"
                       /\ \A i \in DOMAIN inner :
                              IF i % 2 = 1 THEN inner[i] \in Literals
                              ELSE inner[i] = ",",
             value |-> e ]
        : text \in {text_} } : TRUE

\* A test that knows literals only, to compare is_literal_or_name with.
is_literal_only(value) == Len(Strip(value)) = 1 /\ Strip(value)[1] \in Literals

\* ast.literal_eval(value) succeeds, value is dict()/list()/set(), or value
\* is a bare word
is_literal_or_name(value) ==
    \/ literal_eval(value).ok
    \/ Strip(value) \in {<<"dict", "(", ")">>, <<"list", "(", ")">>,
                         <<"set", "(", ")">>}
    \/ (value # <<>> /\ IsWord(value[1]) /\ RStrip(value) = <<value[1]>>)

\* A rewrite that leaves every line as it is, to compare with.
filter_unused_variable_Unchanged(line, previous_line, drop_rhs) == line

filter_unused_variable(line_, previous_line_, drop_rhs_) ==
    CHOOSE returned \in {
        IF MatchesExcept(line) THEN DropExceptName(line)
        ELSE IF multiline_statement(line, previous_line) THEN line
        ELSE IF Count("=", line) = 1
        THEN LET split_line == SplitOn(line, "=")
                 value == LStrip(split_line[2])
             IN IF HasChar(",", split_line[1]) THEN line
                ELSE IF is_literal_or_name(value)
                THEN get_indentation(line) \o <<"pass">> \o get_line_ending(line)
                ELSE IF drop_rhs THEN <<>>
                ELSE get_indentation(line) \o value
        ELSE line
        : line \in {line_}, previous_line \in {previous_line_},
          drop_rhs \in {drop_rhs_} } : TRUE

\* Index of the last atom that holds the character c, 0 when there is none.
LastIndex(c, t) ==
    IF HasChar(c, t)
    THEN CHOOSE i \in DOMAIN t :
             c \in CharsOf(t[i]) /\ \A j \in (i + 1)..Len(t) : c \notin CharsOf(t[j])
    ELSE 0

\* re.match(r"\s*(.*)\s*:\s*(.*),\s*$", line) and what follows it in
\* dict_entry_has_key: group 1 runs to the last colon before the last comma.
dict_entry_has_key(line_, key_) ==
    CHOOSE returned \in {
        LET stripped == RStrip(line)
            body == SubSeq(stripped, 1, Len(stripped) - 1)
            colon == LastIndex(":", body)
            group1 == LStrip(SubSeq(body, 1, colon - 1))
            group2 == LStrip(Drop(body, colon))
        IN IF HasChar(HASH, line) THEN FALSE
           ELSE IF stripped = <<>> \/ stripped[Len(stripped)] # "," \/ colon = 0
           THEN FALSE
           ELSE IF ~literal_eval(group1).ok THEN FALSE
           ELSE IF multiline_statement(group2, <<>>) THEN FALSE
           ELSE literal_eval(group1).value = key
        : line \in {line_}, key \in {key_} } : TRUE

\* The line numbers of the MultiValueRepeatedKeyLiteral messages, key by
\* key: those of a key are yielded when every one of its lines is a dict
\* entry with that key.
\* The marking taken line by line: a flagged line is marked when it passes
\* the check itself, whatever the other lines of its key do.
duplicate_key_line_numbers_PerLine(messages, source) ==
    {messages[i].lineno : i \in {j \in DOMAIN messages :
        /\ messages[j].kind = "MultiValueRepeatedKeyLiteral"
        /\ dict_entry_has_key(SplitOn(source, NL)[messages[j].lineno],
                              messages[j].arg)}}

duplicate_key_line_numbers(messages_, source_) ==
    CHOOSE returned \in {
        LET keyed == SelectSeq(messages,
                               LAMBDA m : m.kind = "MultiValueRepeatedKeyLiteral")
            lines == SplitOn(source, NL)
            of(key) == {i \in DOMAIN keyed : keyed[i].arg = key}
            good(key) == \A i \in of(key) :
                             dict_entry_has_key(lines[keyed[i].lineno], key)
        IN {keyed[i].lineno : i \in {j \in DOMAIN keyed : good(keyed[j].arg)}}
        : messages \in {messages_}, source \in {source_} } : TRUE

\* sorted(marked_line_numbers)[0]
MinOf(S) == CHOOSE n \in S : \A m \in S : n <= m

\* The deletion of every marked line, to compare with.
filter_duplicate_key_EveryMarked(line, line_number, marked_line_numbers) == <<>>

filter_duplicate_key(line_, line_number_, marked_line_numbers_) ==
    CHOOSE returned \in {
        IF marked_line_numbers # {} /\ line_number = MinOf(marked_line_numbers)
        THEN <<>>
        ELSE line
        : line \in {line_}, line_number \in {line_number_},
          marked_line_numbers \in {marked_line_numbers_} } : TRUE

\* re.sub(r"\*", ", ".join(sorted(set(names))), line)
RECURSIVE ReplaceStar(_, _)
ReplaceStar(line_, names_) ==
    CHOOSE returned \in {
        IF line = <<>> THEN <<>>
        ELSE (IF line[1] = "*" THEN names ELSE <<line[1]>>)
             \o ReplaceStar(Tail(line), names)
        : line \in {line_}, names \in {names_} } : TRUE

RECURSIVE Dedup(_)
Dedup(list_) ==
    CHOOSE returned \in {
        IF list = <<>> THEN <<>>
        ELSE IF InList(list[Len(list)], SubSeq(list, 1, Len(list) - 1))
        THEN Dedup(SubSeq(list, 1, Len(list) - 1))
        ELSE Dedup(SubSeq(list, 1, Len(list) - 1)) \o <<list[Len(list)]>>
        : list \in {list_} } : TRUE

\* The expansion to the names in the order of their messages, to compare
\* with.
filter_star_import_Unsorted(line, marked_star_import_undefined_name) ==
    ReplaceStar(line, JoinWith(<<",", SP>>, marked_star_import_undefined_name))

filter_star_import(line_, marked_star_import_undefined_name_) ==
    CHOOSE returned \in {
        ReplaceStar(line, JoinWith(<<",", SP>>,
                                   Sorted(Dedup(marked_star_import_undefined_name))))
        : line \in {line_},
          marked_star_import_undefined_name \in {marked_star_import_undefined_name_} } : TRUE

(***************************************************************************)
(* The analyzer behind check(source): pyflakes on the statements the       *)
(* modelled sources are made of.  A source it cannot parse yields no       *)
(* message (the syntax error goes to the reporter's stub file).            *)
(***************************************************************************)
Keywords == {"as", "def", "del", "from", "if", "import", "nonlocal", "pass", "except"}
IsName(a) == IsWord(a) /\ a \notin Keywords /\ a \notin Literals

\* The atoms of a statement that the parser sees.
RECURSIVE Canon(_)
Canon(t_) ==
    CHOOSE returned \in {
        IF t = <<>> THEN <<>>
        ELSE (IF t[1] \in Whitespace \cup Comments \cup {BS} THEN <<>> ELSE <<t[1]>>)
             \o Canon(Tail(t))
        : t \in {t_} } : TRUE

\* The code of a physical line: the line without its comment.
CodeOf(line) == SelectSeq(line, LAMBDA a : a \notin Comments)

\* The physical line continues on the next one.
Continues(pending) ==
    ParenLevel(pending) > 0 \/ EndsWithBackslash(CodeOf(pending))

\* Logical lines: [first |-> number of the first physical line, text |-> atoms]
RECURSIVE LogicalFrom(_, _, _, _)
LogicalFrom(lines_, i_, first_, pending_) ==
    CHOOSE returned \in {
        IF i > Len(lines)
        THEN (IF pending = <<>> THEN <<>> ELSE <<[first |-> first, text |-> pending]>>)
        ELSE LET now == pending \o lines[i]
                 start == IF pending = <<>> THEN i ELSE first
             IN IF Continues(now) THEN LogicalFrom(lines, i + 1, start, now)
                ELSE <<[first |-> start, text |-> now]>>
                     \o LogicalFrom(lines, i + 1, 0, <<>>)
        : lines \in {lines_}, i \in {i_}, first \in {first_},
          pending \in {pending_} } : TRUE

LogicalLines(source) == LogicalFrom(ReadLines(source), 1, 0, <<>>)

IsDotted(d) ==
    /\ Len(d) % 2 = 1
    /\ \A i \in DOMAIN d : IF i % 2 = 1 THEN IsName(d[i]) ELSE d[i] = "."

\* name | name as alias: the bound name and the text pyflakes prints
ImportItem(item_, prefix) ==
    CHOOSE returned \in {
        LET i == FirstIndex("as", item)
            dotted == IF i = 0 THEN item ELSE SubSeq(item, 1, i - 1)
            alias == IF i = 0 THEN <<>> ELSE Drop(item, i)
            ok == /\ IsDotted(dotted)
                  /\ (i = 0 \/ (Len(alias) = 1 /\ IsName(alias[1])))
                  /\ (prefix = <<>> \/ Len(dotted) = 1)
            last == dotted[Len(dotted)]
        IN [ ok |-> ok,
             name |-> IF ~ok THEN "" ELSE IF i # 0 THEN alias[1]
                      ELSE IF prefix = <<>> THEN dotted[1] ELSE last,
             msg |-> IF ~ok THEN <<>>
                     ELSE prefix \o dotted
                          \o (IF i # 0 /\ alias[1] # last
                              THEN <<SP, "as", SP>> \o alias ELSE <<>>) ]
        : item \in {item_} } : TRUE

RECURSIVE ImportItems(_, _)
ImportItems(items_, prefix_) ==
    CHOOSE returned \in {
        IF items = <<>> THEN <<>>
        ELSE <<ImportItem(items[1], prefix)>> \o ImportItems(Tail(items), prefix)
        : items \in {items_}, prefix \in {prefix_} } : TRUE

AllOk(list) == \A i \in DOMAIN list : list[i].ok

IsBase(b) ==
    /\ b # <<>>
    /\ (LStripSet(b, {"."}) = <<>> \/ IsDotted(LStripSet(b, {"."})))

IsAtomExpr(e) ==
    \/ (Len(e) = 1 /\ (IsName(e[1]) \/ e[1] \in Literals))
    \/ (Len(e) = 3 /\ IsName(e[1]) /\ e[2] = "." /\ IsName(e[3]))

\* The atoms the parser sees, each with the number of its physical line.
RECURSIVE Located(_, _)
Located(t_, row_) ==
    CHOOSE returned \in {
        IF t = <<>> THEN <<>>
        ELSE (IF t[1] \in Whitespace \cup Comments \cup {BS} THEN <<>>
              ELSE <<[atom |-> t[1], row |-> row]>>)
             \o Located(Tail(t), IF t[1] = NL THEN row + 1 ELSE row)
        : t \in {t_}, row \in {row_} } : TRUE

AtomsOf(located) == [i \in DOMAIN located |-> located[i].atom]

\* The pieces between the atoms c that stand outside every bracket.
RECURSIVE SplitTopFrom(_, _, _, _)
SplitTopFrom(t_, c_, depth_, cur_) ==
    CHOOSE returned \in {
        IF t = <<>> THEN <<cur>>
        ELSE IF t[1].atom = c /\ depth = 0
        THEN <<cur>> \o SplitTopFrom(Tail(t), c, 0, <<>>)
        ELSE SplitTopFrom(Tail(t), c,
                          depth + (IF t[1].atom \in {"(", "[", "{"} THEN 1
                                   ELSE IF t[1].atom \in {")", "]", "}"} THEN -1
                                   ELSE 0),
                          cur \o <<t[1]>>)
        : t \in {t_}, c \in {c_}, depth \in {depth_}, cur \in {cur_} } : TRUE

SplitTop(t, c) == SplitTopFrom(t, c, 0, <<>>)

\* ( atom, atom, ... )
IsTuple(e) ==
    /\ Len(e) >= 3 /\ e[1] = "(" /\ e[Len(e)] = ")"
    /\ \A part \in {SplitOn(SubSeq(e, 2, Len(e) - 1), ",")[i] :
                        i \in DOMAIN SplitOn(SubSeq(e, 2, Len(e) - 1), ",")} :
           IsAtomExpr(part)

\* The entries of a dict display { key: value, ... } given with its braces:
\* [ok, keys, values, rows], a row being the line of the key's first atom.
DictEntries(display_) ==
    CHOOSE returned \in {
        LET body == SubSeq(display, 2, Len(display) - 1)
            pieces == SplitTop(body, ",")
            items == IF pieces[Len(pieces)] = <<>>
                     THEN SubSeq(pieces, 1, Len(pieces) - 1) ELSE pieces
            parts == [i \in DOMAIN items |-> SplitTop(items[i], ":")]
            good(e) == IsAtomExpr(AtomsOf(e)) \/ IsTuple(AtomsOf(e))
        IN [ ok |-> \A i \in DOMAIN parts :
                       Len(parts[i]) = 2 /\ good(parts[i][1]) /\ good(parts[i][2]),
             keys |-> [i \in DOMAIN parts |-> AtomsOf(parts[i][1])],
             values |-> [i \in DOMAIN parts |->
                            IF Len(parts[i]) = 2 THEN AtomsOf(parts[i][2]) ELSE <<>>],
             rows |-> [i \in DOMAIN parts |->
                          IF parts[i][1] = <<>> THEN 0 ELSE parts[i][1][1].row] ]
        : display \in {display_} } : TRUE

IsBraced(e) == Len(e) >= 2 /\ e[1] = "{" /\ e[Len(e)] = "}"

IsExpr(e) ==
    IF IsBraced(e) THEN DictEntries(Located(e, 0)).ok
    ELSE LET i == FirstIndex("(", e)
         IN IF i = 0 THEN IsAtomExpr(e)
            ELSE /\ IsAtomExpr(SubSeq(e, 1, i - 1))
                 /\ e[Len(e)] = ")"
                 /\ (i + 1 = Len(e) \/ IsAtomExpr(SubSeq(e, i + 1, Len(e) - 1)))

Loads(e) ==
    {e[i] : i \in {j \in DOMAIN e : IsName(e[j]) /\ (j = 1 \/ e[j - 1] # ".")}}

NoStmt == [ok |-> FALSE, kind |-> "bad", binds |-> <<>>, loads |-> {}]

\* One simple statement, from its canonical atoms.
SimpleStmt(s_) ==
    CHOOSE returned \in {
        IF s = <<>> THEN NoStmt
        ELSE IF s = <<"pass">>
        THEN [ok |-> TRUE, kind |-> "pass", binds |-> <<>>, loads |-> {}]
        ELSE IF s[1] = "nonlocal"
        THEN [ok |-> Len(s) = 2 /\ IsName(s[2]), kind |-> "nonlocal",
              binds |-> <<>>, loads |-> {}]
        ELSE IF s[1] = "del"
        THEN [ok |-> Len(s) = 2 /\ IsName(s[2]), kind |-> "del",
              binds |-> <<>>, loads |-> {}]
        ELSE IF s[1] = "import"
        THEN LET items == ImportItems(SplitOn(Tail(s), ","), <<>>)
             IN [ok |-> AllOk(items), kind |-> "import", binds |-> items, loads |-> {}]
        ELSE IF s[1] = "from"
        THEN LET i == FirstIndex("import", s)
                 base == SubSeq(s, 2, i - 1)
                 rest == Drop(s, i)
                 inner == IF rest # <<>> /\ rest[1] = "(" /\ rest[Len(rest)] = ")"
                          THEN SubSeq(rest, 2, Len(rest) - 1) ELSE rest
                 names == IF inner # <<>> /\ inner[Len(inner)] = "," /\ inner # rest
                          THEN SubSeq(inner, 1, Len(inner) - 1) ELSE inner
                 prefix == base \o (IF base # <<>> /\ base[Len(base)] = "."
                                    THEN <<>> ELSE <<".">>)
                 items == IF names = <<"*">> /\ inner = rest
                          THEN <<[ok |-> TRUE, name |-> "*",
                                  msg |-> prefix \o <<"*">>]>>
                          ELSE ImportItems(SplitOn(names, ","), prefix)
             IN [ok |-> i > 2 /\ IsBase(base) /\ AllOk(items), kind |-> "from",
                 binds |-> items, loads |-> {}]
        ELSE IF /\ Len(s) >= 5 /\ IsName(s[1]) /\ s[2] = "="
                /\ IsName(s[3]) /\ s[4] = "="
        THEN [ok |-> IsExpr(Drop(s, 4)), kind |-> "assign",
              binds |-> <<[ok |-> TRUE, name |-> s[1], msg |-> <<s[1]>>],
                          [ok |-> TRUE, name |-> s[3], msg |-> <<s[3]>>]>>,
              loads |-> Loads(Drop(s, 4))]
        ELSE IF Len(s) >= 3 /\ IsName(s[1]) /\ s[2] = "="
        THEN [ok |-> IsExpr(Drop(s, 2)), kind |-> "assign",
              binds |-> <<[ok |-> TRUE, name |-> s[1], msg |-> <<s[1]>>]>>,
              loads |-> Loads(Drop(s, 2))]
        ELSE [ok |-> IsExpr(s), kind |-> "expr", binds |-> <<>>, loads |-> Loads(s)]
        : s \in {s_} } : TRUE

\* A compound statement header: def f(): / if <expr>:
IsDef(s) == Len(s) = 5 /\ s[1] = "def" /\ IsName(s[2]) /\ SubSeq(s, 3, 5) = <<"(", ")", ":">>
IsIf(s) == Len(s) >= 3 /\ s[1] = "if" /\ s[Len(s)] = ":" /\ IsExpr(SubSeq(s, 2, Len(s) - 1))

RECURSIVE SimpleStmts(_)
SimpleStmts(parts_) ==
    CHOOSE returned \in {
        IF parts = <<>> THEN <<>>
        ELSE <<SimpleStmt(parts[1])>> \o SimpleStmts(Tail(parts))
        : parts \in {parts_} } : TRUE

\* The statements of one logical line; a trailing ";" is allowed.
LineStmts(s_) ==
    CHOOSE returned \in {
        IF IsDef(s)
        THEN <<[ok |-> TRUE, kind |-> "def", binds |-> <<>>, loads |-> {}]>>
        ELSE IF IsIf(s)
        THEN <<[ok |-> TRUE, kind |-> "if", binds |-> <<>>,
                loads |-> Loads(SubSeq(s, 2, Len(s) - 1))]>>
        ELSE SimpleStmts(SplitOn(IF s[Len(s)] = ";" THEN SubSeq(s, 1, Len(s) - 1) ELSE s,
                                 ";"))
        : s \in {s_} } : TRUE

\* Indentation of a logical line, in units; -1 when it is not made of units.
IndentOf(text) ==
    IF \E i \in 1..RunIn(text, Whitespace) : text[i] # IND THEN -1
    ELSE RunIn(text, Whitespace)

\* The physical line each statement of a logical line starts on.
StmtRows(text_, first_) ==
    CHOOSE returned \in {
        LET parts == SplitTop(Located(text, first), ";")
        IN [k \in DOMAIN parts |->
               IF parts[k] = <<>> THEN first ELSE parts[k][1].row]
        : text \in {text_}, first \in {first_} } : TRUE

\* The logical lines that hold a statement, parsed.
RECURSIVE ParsedFrom(_)
ParsedFrom(logical_) ==
    CHOOSE returned \in {
        IF logical = <<>> THEN <<>>
        ELSE (IF Canon(logical[1].text) = <<>> THEN <<>>
              ELSE <<[ first |-> logical[1].first,
                       ind |-> IndentOf(logical[1].text),
                       text |-> logical[1].text,
                       rows |-> StmtRows(logical[1].text, logical[1].first),
                       stmts |-> LineStmts(Canon(logical[1].text)) ]>>)
             \o ParsedFrom(Tail(logical))
        : logical \in {logical_} } : TRUE

Parsed(source) ==
    CHOOSE parsed \in {ParsedFrom(logical) : logical \in {LogicalLines(source)}} : TRUE

IsOpener(p) == p.stmts[1].kind \in {"def", "if"}

\* Line i's block is opened by the nearest earlier line that is less
\* indented; 0 at top level.
Parent(parsed, i) ==
    IF \E j \in 1..(i - 1) : parsed[j].ind < parsed[i].ind
    THEN CHOOSE j \in 1..(i - 1) :
             /\ parsed[j].ind < parsed[i].ind
             /\ \A k \in (j + 1)..(i - 1) : parsed[k].ind >= parsed[i].ind
    ELSE 0

\* compile(source) succeeds.
CompilesParsed(source, parsed) ==
    /\ (source = <<>> \/ ~Continues(source))
    /\ \A i \in DOMAIN parsed :
          /\ parsed[i].ind >= 0
          /\ AllOk(parsed[i].stmts)
          /\ (i = 1 => parsed[i].ind = 0)
          /\ (i > 1 /\ IsOpener(parsed[i - 1])
                 => parsed[i].ind = parsed[i - 1].ind + 1)
          /\ (i > 1 /\ ~IsOpener(parsed[i - 1])
                 => parsed[i].ind <= parsed[i - 1].ind)
          /\ (IsOpener(parsed[i]) => i < Len(parsed))

Compiles(source) == \E parsed \in {Parsed(source)} : CompilesParsed(source, parsed)

\* The function whose body holds line i; 0 for the module.
RECURSIVE ScopeOf(_, _)
ScopeOf(parsed_, i_) ==
    CHOOSE returned \in {
        LET p == Parent(parsed, i)
        IN IF p = 0 THEN 0
           ELSE IF parsed[p].stmts[1].kind = "def" THEN p
           ELSE ScopeOf(parsed, p)
        : parsed \in {parsed_}, i \in {i_} } : TRUE

\* Statement k of line i comes before statement k2 of line i2.
Before(i, k, i2, k2) == i < i2 \/ (i = i2 /\ k < k2)

\* Statement k of line i binds the name.
Binds(parsed, i, k, name) ==
    \E b \in DOMAIN parsed[i].stmts[k].binds :
        parsed[i].stmts[k].binds[b].name = name

\* The scope binds the name, in a statement before statement k2 of line i2
\* (anywhere, when i2 = 0).
BoundBefore(parsed, scope, name, i2, k2) ==
    \E i \in DOMAIN parsed : \E k \in DOMAIN parsed[i].stmts :
        /\ ScopeOf(parsed, i) = scope
        /\ Binds(parsed, i, k, name)
        /\ (i2 = 0 \/ Before(i, k, i2, k2))

\* Some load of the name resolves to the scope's binding: a function's
\* binding is found by a later load of the same function; the module's
\* binding by a later load of the module, and by every load inside a
\* function that has not bound the name (function bodies are deferred).
UsedIn(parsed, scope, name) ==
    \E i \in DOMAIN parsed : \E k \in DOMAIN parsed[i].stmts :
        /\ name \in parsed[i].stmts[k].loads
        /\ LET t == ScopeOf(parsed, i)
           IN IF scope # 0
              THEN t = scope /\ BoundBefore(parsed, scope, name, i, k)
              ELSE IF t = 0 THEN BoundBefore(parsed, 0, name, i, k)
              ELSE ~BoundBefore(parsed, t, name, i, k)

\* Statement k of line i holds the scope's last binding of the name.
IsLastBinding(parsed, i, k, name) ==
    \A i2 \in DOMAIN parsed : \A k2 \in DOMAIN parsed[i2].stmts :
        (ScopeOf(parsed, i2) = ScopeOf(parsed, i) /\ Binds(parsed, i2, k2, name))
            => ~Before(i, k, i2, k2)

\* The names a load finds in the builtins.
Builtins == {"dict", "list", "set"}

\* The module has executed a star import before statement k of line i
\* (anywhere, when i = 0).
StarBefore(parsed, i, k) == BoundBefore(parsed, 0, "*", i, k)

\* The load of the name in statement k of line i finds no binding while a
\* star import is in effect: the name may come from the star imports.
StarUsage(parsed, i, k, name) ==
    /\ name \in parsed[i].stmts[k].loads
    /\ name \notin Builtins
    /\ LET t == ScopeOf(parsed, i)
       IN IF t = 0
          THEN ~BoundBefore(parsed, 0, name, i, k) /\ StarBefore(parsed, i, k)
          ELSE /\ ~BoundBefore(parsed, t, name, i, k)
               /\ ~BoundBefore(parsed, 0, name, 0, 0)
               /\ StarBefore(parsed, 0, 0)

\* A load that may come from the star imports uses the star import of
\* statement k of line i: every star import in effect at the load is used.
StarUsed(parsed, i, k) ==
    \E i2 \in DOMAIN parsed : \E k2 \in DOMAIN parsed[i2].stmts :
        \E name \in parsed[i2].stmts[k2].loads :
            /\ StarUsage(parsed, i2, k2, name)
            /\ (ScopeOf(parsed, i2) # 0 \/ Before(i, k, i2, k2))

\* A later statement binds the same star import again: the binding of
\* statement k of line i is no longer in the scope when it ends.
StarRebound(parsed, i, k, msg) ==
    \E i2 \in DOMAIN parsed : \E k2 \in DOMAIN parsed[i2].stmts :
        /\ Before(i, k, i2, k2)
        /\ \E b2 \in DOMAIN parsed[i2].stmts[k2].binds :
               parsed[i2].stmts[k2].binds[b2].msg = msg

UnusedImport == "UnusedImport"
UnusedVariable == "UnusedVariable"
MultiValueRepeatedKeyLiteral == "MultiValueRepeatedKeyLiteral"
ImportStarUsed == "ImportStarUsed"
ImportStarUsage == "ImportStarUsage"

\* The messages of the bindings of statement k of line i.
RECURSIVE BindMessages(_, _, _, _)
BindMessages(parsed_, i_, k_, b_) ==
    CHOOSE returned \in {
        LET s == parsed[i].stmts[k]
        IN IF b > Len(s.binds) THEN <<>>
           ELSE LET name == s.binds[b].name
                    scope == ScopeOf(parsed, i)
                    unused == /\ IsLastBinding(parsed, i, k, name)
                              /\ \A b2 \in (b + 1)..Len(s.binds) : s.binds[b2].name # name
                              /\ ~UsedIn(parsed, scope, name)
                IN (IF name = "*"
                    THEN <<[kind |-> ImportStarUsed, lineno |-> parsed[i].rows[k],
                            arg |-> SubSeq(s.binds[b].msg, 1,
                                           Len(s.binds[b].msg) - 2)]>>
                         \o (IF \/ StarUsed(parsed, i, k)
                                \/ StarRebound(parsed, i, k, s.binds[b].msg)
                             THEN <<>>
                             ELSE <<[kind |-> UnusedImport,
                                     lineno |-> parsed[i].rows[k],
                                     arg |-> s.binds[b].msg]>>)
                    ELSE IF unused /\ s.kind \in {"import", "from"}
                    THEN <<[kind |-> UnusedImport, lineno |-> parsed[i].rows[k],
                            arg |-> s.binds[b].msg]>>
                    ELSE IF unused /\ s.kind = "assign" /\ scope # 0
                    THEN <<[kind |-> UnusedVariable, lineno |-> parsed[i].rows[k],
                            arg |-> s.binds[b].msg]>>
                    ELSE <<>>)
                   \o BindMessages(parsed, i, k, b + 1)
        : parsed \in {parsed_}, i \in {i_}, k \in {k_}, b \in {b_} } : TRUE

\* The messages of the loads of statement k of line i, one for each name
\* that may come from the star imports.
UsageMessages(parsed_, i_, k_) ==
    CHOOSE returned \in {
        LET names == SelectSeq(AtomOrder,
                               LAMBDA a : StarUsage(parsed, i, k, a))
        IN [ n \in DOMAIN names |->
                 [ kind |-> ImportStarUsage, lineno |-> parsed[i].rows[k],
                   arg |-> <<names[n]>> ] ]
        : parsed \in {parsed_}, i \in {i_}, k \in {k_} } : TRUE

RECURSIVE StmtMessages(_, _, _)
StmtMessages(parsed_, i_, k_) ==
    CHOOSE returned \in {
        IF i > Len(parsed) THEN <<>>
        ELSE IF k > Len(parsed[i].stmts) THEN StmtMessages(parsed, i + 1, 1)
        ELSE BindMessages(parsed, i, k, 1) \o UsageMessages(parsed, i, k)
             \o StmtMessages(parsed, i, k + 1)
        : parsed \in {parsed_}, i \in {i_}, k \in {k_} } : TRUE

\* The dict display of a logical line, located: the line is the display or
\* assigns it to a name; <<>> when it holds none.
DisplayOf(text_, first_) ==
    CHOOSE returned \in {
        LET located == Located(text, first)
            atoms == AtomsOf(located)
        IN IF IsBraced(atoms) THEN located
           ELSE IF /\ Len(atoms) >= 4 /\ IsName(atoms[1]) /\ atoms[2] = "="
                   /\ IsBraced(Drop(atoms, 2))
           THEN Drop(located, 2)
           ELSE <<>>
        : text \in {text_}, first \in {first_} } : TRUE

\* pyflakes, DICT: a literal key that occurs more than once is reported at
\* each of its occurrences when one of its values occurs once.
KeyMessagesOf(entries_) ==
    CHOOSE returned \in {
        LET same(i) == {j \in DOMAIN entries.keys : entries.keys[j] = entries.keys[i]}
            reported(i) ==
                /\ Cardinality(same(i)) > 1
                /\ \E j \in same(i) : \A k \in same(i) \ {j} :
                       entries.values[k] # entries.values[j]
            chosen == SelectSeq([i \in DOMAIN entries.keys |-> i],
                                LAMBDA i : reported(i))
        IN [ n \in DOMAIN chosen |->
                 [ kind |-> MultiValueRepeatedKeyLiteral,
                   lineno |-> entries.rows[chosen[n]],
                   arg |-> entries.keys[chosen[n]] ] ]
        : entries \in {entries_} } : TRUE

RECURSIVE KeyMessages(_, _)
KeyMessages(parsed_, i_) ==
    CHOOSE returned \in {
        IF i > Len(parsed) THEN <<>>
        ELSE (IF DisplayOf(parsed[i].text, parsed[i].first) = <<>> THEN <<>>
              ELSE KeyMessagesOf(DictEntries(DisplayOf(parsed[i].text,
                                                       parsed[i].first))))
             \o KeyMessages(parsed, i + 1)
        : parsed \in {parsed_}, i \in {i_} } : TRUE

\* pyflakes.api.check: the messages.
PyflakesParsed(source, parsed) ==
    IF CompilesParsed(source, parsed)
    THEN StmtMessages(parsed, 1, 1) \o KeyMessages(parsed, 1)
    ELSE <<>>

Pyflakes(source) ==
    CHOOSE messages \in {PyflakesParsed(source, parsed) : parsed \in {Parsed(source)}} :
        TRUE

\* check(source): the analyzer may raise RecursionError, UnicodeDecodeError
\* or AttributeError, which leaves the reporter without messages.
check(source, raises) == IF raises THEN <<>> ELSE Pyflakes(source)

unused_import_line_numbers(messages) ==
    {messages[i].lineno : i \in {j \in DOMAIN messages :
                                    messages[j].kind = UnusedImport}}

unused_variable_line_numbers(messages) ==
    {messages[i].lineno : i \in {j \in DOMAIN messages :
                                    messages[j].kind = UnusedVariable}}

star_import_used_line_numbers(messages) ==
    {messages[i].lineno : i \in {j \in DOMAIN messages :
                                    messages[j].kind = ImportStarUsed}}

\* The undefined names of the ImportStarUsage messages, in message order.
star_import_usage_undefined_name(messages) ==
    [ i \in DOMAIN SelectSeq(messages, LAMBDA m : m.kind = ImportStarUsage) |->
          SelectSeq(messages, LAMBDA m : m.kind = ImportStarUsage)[i].arg ]

\* re.search(r"\bword\b", source)
HasWord(word, source) == \E i \in DOMAIN source : source[i] = word

\* marked_unused_module[line_number]
RECURSIVE ModulesOfLine(_, _)
ModulesOfLine(messages_, line_number_) ==
    CHOOSE returned \in {
        IF messages = <<>> THEN <<>>
        ELSE (IF messages[1].kind = UnusedImport /\ messages[1].lineno = line_number
              THEN <<messages[1].arg>> ELSE <<>>)
             \o ModulesOfLine(Tail(messages), line_number)
        : messages \in {messages_}, line_number \in {line_number_} } : TRUE

(***************************************************************************)
(* Useless pass statements                                                 *)
(***************************************************************************)
NAME == "NAME"
NUMBER == "NUMBER"
STRING_ == "STRING"
INDENT == "INDENT"
DEDENT == "DEDENT"
NEWLINE == "NEWLINE"
\* Names alone, to compare with.
ATOMS_Names == {NAME}

ATOMS == {NAME, NUMBER, STRING_}

TokenType(a) ==
    CASE a \in Comments -> "COMMENT"
      [] a \in Strings -> STRING_
      [] a \in Numbers -> NUMBER
      [] a \in Punctuation -> "OP"
      [] OTHER -> NAME

\* The column a line's first statement starts in.
RECURSIVE Column(_)
Column(line_) ==
    CHOOSE returned \in {
        IF line = <<>> \/ line[1] \notin {SP, IND} THEN 0
        ELSE (IF line[1] = IND THEN 4 ELSE 1) + Column(Tail(line))
        : line \in {line_} } : TRUE

\* The tokens of the atoms of one physical line; the newline gets type
\* nlType, or no token when nlType is "".
RECURSIVE AtomTokens(_, _, _, _)
AtomTokens(rest_, row_, line_, nlType_) ==
    CHOOSE returned \in {
        IF rest = <<>> THEN <<>>
        ELSE (IF rest[1] \in {SP, IND, BS} \/ (rest[1] = NL /\ nlType = "") THEN <<>>
              ELSE <<[ type |-> IF rest[1] = NL THEN nlType ELSE TokenType(rest[1]),
                       row |-> row, line |-> line ]>>)
             \o AtomTokens(Tail(rest), row, line, nlType)
        : rest \in {rest_}, row \in {row_}, line \in {line_},
          nlType \in {nlType_} } : TRUE

RECURSIVE Dedents(_, _, _, _)
Dedents(stack_, col_, row_, line_) ==
    CHOOSE returned \in {
        IF stack[Len(stack)] > col
        THEN <<[type |-> DEDENT, row |-> row, line |-> line]>>
             \o Dedents(SubSeq(stack, 1, Len(stack) - 1), col, row, line)
        ELSE <<>>
        : stack \in {stack_}, col \in {col_}, row \in {row_},
          line \in {line_} } : TRUE

RECURSIVE PopTo(_, _)
PopTo(stack_, col_) ==
    CHOOSE returned \in {
        IF stack[Len(stack)] > col THEN PopTo(SubSeq(stack, 1, Len(stack) - 1), col)
        ELSE stack
        : stack \in {stack_}, col \in {col_} } : TRUE

\* tokenize.generate_tokens(source): [ok, toks]; ok is FALSE when the
\* tokenizer raises (a statement still open at the end of the text, or a
\* dedent to a column that no block starts in).  The DEDENT and ENDMARKER
\* tokens of the end of the text follow every statement and are left out.
RECURSIVE TokensFrom(_, _, _, _, _)
\* The tokens of the line in front of those of the rest of the text.
TokensBefore(here, lines, row, newStack, level, cont) ==
    CHOOSE tokens \in { [ok |-> rest.ok, toks |-> here \o rest.toks] :
                        rest \in {TokensFrom(lines, row + 1, newStack, level, cont)} } :
        TRUE

\* One line: fresh when it starts a statement, blank when it holds none.
TokensOfLine(lines, row, stack, line, col, fresh, blank, level, cont) ==
    IF fresh /\ ~blank /\ col < stack[Len(stack)] /\ PopTo(stack, col)[Len(PopTo(stack, col))] # col
    THEN [ok |-> FALSE, toks |-> <<>>]
    ELSE TokensBefore(
             (IF fresh /\ ~blank /\ col > stack[Len(stack)]
              THEN <<[type |-> INDENT, row |-> row, line |-> line]>>
              ELSE IF fresh /\ ~blank /\ col < stack[Len(stack)]
              THEN Dedents(stack, col, row, line)
              ELSE <<>>)
             \o AtomTokens(line, row, line,
                           IF cont THEN "" ELSE IF blank \/ level # 0 THEN "NL"
                           ELSE NEWLINE),
             lines, row,
             IF fresh /\ ~blank /\ col > stack[Len(stack)] THEN Append(stack, col)
             ELSE IF fresh /\ ~blank /\ col < stack[Len(stack)] THEN PopTo(stack, col)
             ELSE stack,
             level, cont)

TokensFrom(lines, row, stack, parenlev, continued) ==
    IF row > Len(lines)
    THEN [ok |-> parenlev = 0 /\ ~continued, toks |-> <<>>]
    ELSE CHOOSE tokens \in
             { TokensOfLine(lines, row, stack, line, col, fresh, blank, level, cont) :
                   line \in {lines[row]},
                   col \in {Column(lines[row])},
                   fresh \in {parenlev = 0 /\ ~continued},
                   blank \in {/\ parenlev = 0 /\ ~continued
                              /\ Canon(lines[row]) = <<>>
                              /\ ~HasChar(BS, CodeOf(lines[row]))},
                   level \in {parenlev + ParenLevel(lines[row])},
                   cont \in {EndsWithBackslash(CodeOf(lines[row]))} } :
             TRUE

generate_tokens(source) ==
    CHOOSE tokens \in {TokensFrom(lines, 1, <<0>>, 0, FALSE) : lines \in {ReadLines(source)}} :
        TRUE

IsTriple(a) == a = DocString

\* text.rstrip().endswith('"""')
EndsWithTripleQuote(t) == RStrip(t) # <<>> /\ IsTriple(RStrip(t)[Len(RStrip(t))])

\* The loop of useless_pass_line_numbers over the tokens: the set of the
\* line numbers it yields.  st is the loop's state.
RECURSIVE UselessPassLoop(_, _, _)
UselessPassLoop(toks_, st_, ignore_pass_after_docstring_) ==
    CHOOSE returned \in {
        IF toks = <<>> THEN {}
        ELSE LET token == toks[1]
                 is_pass == token.type = NAME /\ Strip(token.line) = <<"pass">>
                 leading == /\ token.row - 1 = st.last_pass_row
                            /\ get_indentation(token.line) = st.last_pass_indentation
                            /\ token.type \in ATOMS
                            /\ ~is_pass
                 is_trailing_pass == /\ st.previous_token_type # INDENT
                                     /\ ~EndsWithBackslash(st.previous_line)
                 is_pass_after_docstring ==
                     /\ st.previous_token_type = NEWLINE
                     /\ EndsWithTripleQuote(st.previous_line)
                 skip == /\ is_pass /\ is_trailing_pass
                         /\ is_pass_after_docstring /\ ignore_pass_after_docstring
                 passed == IF is_pass
                           THEN [st EXCEPT !.last_pass_row = token.row,
                                           !.last_pass_indentation =
                                               get_indentation(token.line)]
                           ELSE st
                 next == IF skip THEN passed
                         ELSE [passed EXCEPT !.previous_token_type = token.type,
                                             !.previous_line = token.line]
             IN (IF leading THEN {token.row - 1} ELSE {})
                \cup (IF is_pass /\ is_trailing_pass /\ ~skip THEN {token.row} ELSE {})
                \cup UselessPassLoop(Tail(toks), next, ignore_pass_after_docstring)
        : toks \in {toks_}, st \in {st_},
          ignore_pass_after_docstring \in {ignore_pass_after_docstring_} } : TRUE

\* The line numbers yielded before the tokenizer raises, to compare with.
useless_pass_line_numbers_Partial(source, ignore_pass_after_docstring) ==
    UNION { UselessPassLoop(tokens.toks,
                            [ previous_token_type |-> "", last_pass_row |-> -1,
                              last_pass_indentation |-> <<>>,
                              previous_line |-> <<>> ],
                            ignore_pass_after_docstring) :
            tokens \in {generate_tokens(source)} }

\* The line numbers of all the pass lines, to compare with.
useless_pass_line_numbers_EveryPass(source, ignore_pass_after_docstring) ==
    { r \in DOMAIN ReadLines(source) : Strip(ReadLines(source)[r]) = <<"pass">> }

\* The line numbers yielded; when the tokenizer raises, the caller gets the
\* exception in place of them.
useless_pass_line_numbers(source, ignore_pass_after_docstring) ==
    UNION { IF ~tokens.ok THEN {}
            ELSE UselessPassLoop(tokens.toks,
                                 [ previous_token_type |-> "", last_pass_row |-> -1,
                                   last_pass_indentation |-> <<>>,
                                   previous_line |-> <<>> ],
                                 ignore_pass_after_docstring) :
            tokens \in {generate_tokens(source)} }

RECURSIVE DropLines(_, _, _)
DropLines(lines_, line_number_, marked_lines_) ==
    CHOOSE returned \in {
        IF line_number > Len(lines) THEN <<>>
        ELSE (IF line_number \in marked_lines THEN <<>> ELSE lines[line_number])
             \o DropLines(lines, line_number + 1, marked_lines)
        : lines \in {lines_}, line_number \in {line_number_},
          marked_lines \in {marked_lines_} } : TRUE

filter_useless_pass(source, ignore_pass_statements, ignore_pass_after_docstring) ==
    DropLines(ReadLines(source), 1,
              IF ignore_pass_statements THEN {}
              ELSE useless_pass_line_numbers(source, ignore_pass_after_docstring))

(***************************************************************************)
(* filter_code                                                             *)
(***************************************************************************)
\* frozenset(additional_imports), additional_imports a list of atom texts
\* (<<>> for None or an empty list)
ImportSet(additional_imports) ==
    {Spell(additional_imports[i]) : i \in DOMAIN additional_imports}

\* The part of filter_code before its loop: the safe set and the marked
\* line numbers of this pass.
FilterCodeMarks(source, messages, opts, remove_unused_variables) ==
       [ imports |-> IF opts.additional_imports # <<>>
                     THEN SAFE_IMPORTS \cup ImportSet(opts.additional_imports)
                     ELSE SAFE_IMPORTS,
         messages |-> messages,
         marked_import_line_numbers |->
             IF opts.ignore_init_module_imports THEN {}
             ELSE unused_import_line_numbers(messages),
         marked_variable_line_numbers |->
             IF remove_unused_variables
             THEN unused_variable_line_numbers(messages) ELSE {},
         marked_key_line_numbers |->
             IF opts.remove_duplicate_keys
             THEN duplicate_key_line_numbers(messages, source) ELSE {},
         marked_star_import_line_numbers |->
             IF /\ opts.expand_star_imports
                /\ ~HasWord("__all__", source) /\ ~HasWord("del", source)
                /\ Cardinality(star_import_used_line_numbers(messages)) <= 1
                /\ star_import_usage_undefined_name(messages) # <<>>
             THEN star_import_used_line_numbers(messages) ELSE {},
         undefined_names |->
             IF /\ opts.expand_star_imports
                /\ ~HasWord("__all__", source) /\ ~HasWord("del", source)
                /\ Cardinality(star_import_used_line_numbers(messages)) <= 1
             THEN star_import_usage_undefined_name(messages) ELSE <<>> ]

\* The loop of filter_code, a line that is fed to no PendingFix and holds
\* no "#": the rewrite its marks select.
FilterCodeLineEdit(line, line_number, previous_line, marks, opts) ==
    IF line_number \in marks.marked_import_line_numbers
    THEN filter_unused_import(line, ModulesOfLine(marks.messages, line_number),
                              opts.remove_all_unused_imports, marks.imports,
                              previous_line)
    ELSE IF line_number \in marks.marked_variable_line_numbers
    THEN TextResult(filter_unused_variable(line, <<>>,
                                           opts.remove_rhs_for_unused_variables))
    ELSE IF line_number \in marks.marked_key_line_numbers
    THEN TextResult(filter_duplicate_key(line, line_number,
                                         marks.marked_key_line_numbers))
    ELSE IF line_number \in marks.marked_star_import_line_numbers
    THEN TextResult(filter_star_import(line, marks.undefined_names))
    ELSE TextResult(line)

\* A dispatcher that does not look for "#", to compare filter_code with.
FilterCodeLineUnguarded(line, line_number, result, previous_line, marks, opts) ==
    IF result.pending THEN FilterMultilineImportCall(result.fix, line)
    ELSE FilterCodeLineEdit(line, line_number, previous_line, marks, opts)

\* One iteration of the loop of filter_code: the new value of result.
FilterCodeLineResult(line_, line_number_, result_, previous_line_, marks_, opts_) ==
    CHOOSE returned \in {
        IF result.pending THEN FilterMultilineImportCall(result.fix, line)
        ELSE IF HasChar(HASH, line) THEN TextResult(line)
        ELSE FilterCodeLineEdit(line, line_number, previous_line, marks, opts)
        : line \in {line_}, line_number \in {line_number_},
          result \in {result_}, previous_line \in {previous_line_},
          marks \in {marks_}, opts \in {opts_} } : TRUE

(***************************************************************************)
(* The state machine: _fix_file / fix_code / filter_code                   *)
(***************************************************************************)
VARIABLES
    args,            \* the caller's arguments (command line or fix_code call)
    analyzer_raises, \* the analyzer raises one of the errors check() catches
    original,        \* the source text given
    pc,              \* where the program is
    run,             \* 1, or 2 when fix_code is applied to its own result
    opts,            \* fix_code's parameters
    source,          \* fix_code: source
    remove_unused_variables,  \* fix_code: the parameter after the nonlocal test
    marks,           \* filter_code: safe set, messages and marked lines
    line_number,     \* filter_code: number of the next line
    previous_line,   \* filter_code: previous_line
    result,          \* filter_code: result
    yielded,         \* filter_code: the text yielded so far
    filtered_source, \* fix_code: filtered_source
    first_result,    \* what the first fix_code call returned
    standard_out,    \* _fix_file: what was written to standard_out
    file,            \* the content of the file on disk
    exit_status,     \* _main: the exit status, -1 while running
    passes,          \* number of passes of the loop of fix_code begun
    call,            \* a function of the module called on its own: its arguments
    value,           \* what that call returned
    files,           \* _main: the files of a run over several files
    standard_error   \* _main: the errors given to _LOGGER.error

vars == << files, standard_error, call, value, args, analyzer_raises, original, pc, run, opts, source, remove_unused_variables, marks,
           line_number, previous_line, result, yielded, filtered_source,
           first_result, standard_out, file, exit_status, passes >>

MaxLines == 3
MaxPasses == 6

NoMarks ==
    [ imports |-> {}, messages |-> <<>>, marked_import_line_numbers |-> {},
      marked_variable_line_numbers |-> {}, marked_key_line_numbers |-> {},
      marked_star_import_line_numbers |-> {}, undefined_names |-> <<>> ]

NoOpts ==
    [ additional_imports |-> <<>>, expand_star_imports |-> FALSE,
      remove_all_unused_imports |-> FALSE, remove_duplicate_keys |-> FALSE,
      remove_unused_variables |-> FALSE,
      remove_rhs_for_unused_variables |-> FALSE,
      ignore_init_module_imports |-> FALSE, ignore_pass_statements |-> FALSE,
      ignore_pass_after_docstring |-> FALSE ]

\* "nonlocal" in source
NonlocalAtoms == {"nonlocal", "nonlocal_lib"}
\* A test that finds the word in no source, to compare with.
HasNonlocal_Never(text) == FALSE

HasNonlocal(text) == \E i \in DOMAIN text : text[i] \in NonlocalAtoms

\* The start of one pass of the loop of fix_code: filter_code is called.
BeginPass(src, o, ruv, n) ==
    /\ \E messages \in {check(src, analyzer_raises)} :
           marks' = FilterCodeMarks(src, messages, o, ruv)
    /\ line_number' = 1
    /\ previous_line' = <<>>
    /\ result' = TextResult(<<>>)
    /\ yielded' = <<>>
    /\ passes' = n

\* fix_code(source, ...) up to its loop
EnterFixCode(src, o) ==
    /\ opts' = o
    /\ source' = src
    /\ IF src = <<>>
       THEN /\ pc' = "returned"
            /\ filtered_source' = src
            /\ remove_unused_variables' = o.remove_unused_variables
            /\ UNCHANGED << marks, line_number, previous_line, result, yielded,
                            passes >>
       ELSE /\ pc' = "filter_code"
            /\ filtered_source' = <<>>
            /\ remove_unused_variables' =
                   (o.remove_unused_variables /\ ~HasNonlocal(src))
            /\ BeginPass(src, o, o.remove_unused_variables /\ ~HasNonlocal(src), 1)

\* _fix_file: args.get("imports", "").split(",")
CommandLineImports(a) ==
    SplitOn(IF a.has_imports THEN a.imports ELSE <<>>, ",")

\* The parameters _fix_file passes to fix_code.
FixFileOpts(a) ==
    [ additional_imports |-> CommandLineImports(a),
      expand_star_imports |-> a.expand_star_imports,
      remove_all_unused_imports |-> a.remove_all_unused_imports,
      remove_duplicate_keys |-> a.remove_duplicate_keys,
      remove_unused_variables |-> a.remove_unused_variables,
      remove_rhs_for_unused_variables |-> a.remove_rhs_for_unused_variables,
      ignore_init_module_imports |-> FALSE,
      ignore_pass_statements |-> a.ignore_pass_statements,
      ignore_pass_after_docstring |-> FALSE ]

\* A direct call of fix_code: additional_imports is the list given.
CallOpts(a) ==
    [ additional_imports |-> IF a.has_imports THEN SplitOn(a.imports, ",") ELSE <<>>,
      expand_star_imports |-> a.expand_star_imports,
      remove_all_unused_imports |-> a.remove_all_unused_imports,
      remove_duplicate_keys |-> a.remove_duplicate_keys,
      remove_unused_variables |-> a.remove_unused_variables,
      remove_rhs_for_unused_variables |-> a.remove_rhs_for_unused_variables,
      ignore_init_module_imports |-> FALSE,
      ignore_pass_statements |-> a.ignore_pass_statements,
      ignore_pass_after_docstring |-> FALSE ]

\* _main up to the call of fix_code in _fix_file: the arguments are checked,
\* the file is read and fix_code is entered.
Main ==
    /\ pc = "start" /\ args.entry = "_main"
    /\ IF args.remove_rhs_for_unused_variables /\ ~args.remove_unused_variables
       THEN /\ pc' = "exit"
            /\ exit_status' = 1
            /\ UNCHANGED << opts, source, remove_unused_variables, marks,
                            line_number, previous_line, result, yielded,
                            filtered_source, passes >>
       ELSE /\ EnterFixCode(file, FixFileOpts(args))
            /\ UNCHANGED exit_status
    /\ UNCHANGED << files, standard_error, call, value, args, analyzer_raises, original, run, first_result,
                    standard_out, file >>

\* A caller calls fix_code(source, ...).
FixCode ==
    /\ pc = "start" /\ args.entry = "fix_code"
    /\ EnterFixCode(original, CallOpts(args))
    /\ UNCHANGED << files, standard_error, call, value, args, analyzer_raises, original, run, first_result,
                    standard_out, file, exit_status >>

\* filter_code, the end of an iteration: a text is yielded, a PendingFix kept.
FilterCodeResult(line, new) ==
    /\ result' = new
    /\ yielded' = IF new.pending THEN yielded ELSE yielded \o new.text
    /\ previous_line' = line

FilterCodeYield(line) ==
    \E new \in {FilterCodeLineResult(line, line_number, result, previous_line,
                                     marks, opts)} :
        FilterCodeResult(line, new)

\* filter_code: one iteration of the loop over the lines.
FilterCodeLine ==
    /\ pc = "filter_code"
    /\ line_number <= Len(ReadLines(source))
    /\ FilterCodeYield(ReadLines(source)[line_number])
    /\ line_number' = line_number + 1
    /\ UNCHANGED << files, standard_error, call, value, args, analyzer_raises, original, pc, run, opts, source,
                    remove_unused_variables, marks, filtered_source,
                    first_result, standard_out, file, exit_status, passes >>

\* A loop whose test never succeeds, to compare the driver with.
NeverConverged(filtered, src) == FALSE

\* filtered_source == source
Converged(filtered, src) == filtered = src

\* The rest of the loop body of fix_code once filter_code is exhausted:
\* filter_useless_pass, the comparison, and the next pass or the return.
FilterUselessPass ==
    /\ pc = "filter_code"
    /\ line_number > Len(ReadLines(source))
    /\ \E new \in {filter_useless_pass(yielded, opts.ignore_pass_statements,
                                        opts.ignore_pass_after_docstring)} :
          /\ filtered_source' = new
          /\ IF Converged(new, source)
             THEN /\ pc' = "returned"
                  /\ UNCHANGED << source, marks, line_number, previous_line,
                                  result, yielded, passes >>
             ELSE /\ passes < MaxPasses
                  /\ pc' = "filter_code"
                  /\ source' = new
                  /\ BeginPass(new, opts, remove_unused_variables, passes + 1)
    /\ UNCHANGED << files, standard_error, call, value, args, analyzer_raises, original, run, opts,
                    remove_unused_variables, first_result, standard_out, file,
                    exit_status >>

\* fix_code is applied once more, to the text it returned.
Again ==
    /\ pc = "returned" /\ args.entry = "fix_code" /\ run = 1
    /\ run' = 2
    /\ first_result' = filtered_source
    /\ EnterFixCode(filtered_source, opts)
    /\ UNCHANGED << files, standard_error, call, value, args, analyzer_raises, original, standard_out, file,
                    exit_status >>

\* difflib.unified_diff body lines: the longest common run of lines is kept
\* (earliest in old, then earliest in new), its two sides are compared the
\* same way; removed lines come before added ones.
Prefixed(tag, lines) == [i \in DOMAIN lines |-> <<tag>> \o lines[i]]

RECURSIVE DiffLines(_, _)
DiffLines(old_, new_) ==
    CHOOSE returned \in {
        LET blocks == { m \in (DOMAIN old) \X (DOMAIN new) \X (1..Len(old)) :
                           /\ m[1] + m[3] - 1 <= Len(old)
                           /\ m[2] + m[3] - 1 <= Len(new)
                           /\ SubSeq(old, m[1], m[1] + m[3] - 1)
                                = SubSeq(new, m[2], m[2] + m[3] - 1) }
        IN IF blocks = {} THEN Prefixed("-", old) \o Prefixed("+", new)
           ELSE LET m == CHOOSE b \in blocks : \A c \in blocks :
                            \/ b[3] > c[3]
                            \/ b[3] = c[3] /\ b[1] < c[1]
                            \/ b[3] = c[3] /\ b[1] = c[1] /\ b[2] <= c[2]
                IN DiffLines(SubSeq(old, 1, m[1] - 1), SubSeq(new, 1, m[2] - 1))
                   \o Prefixed(" ", SubSeq(old, m[1], m[1] + m[3] - 1))
                   \o DiffLines(Drop(old, m[1] + m[3] - 1), Drop(new, m[2] + m[3] - 1))
        : old \in {old_}, new \in {new_} } : TRUE

\* get_diff_text(old, new, filename) for files short enough for one hunk:
\* nothing when the two are equal.
NoNewlineAtEnd == "\\ No newline at end of file"
RECURSIVE WithNewlines(_)
WithNewlines(lines_) ==
    CHOOSE returned \in {
        IF lines = <<>> THEN <<>>
        ELSE lines[1]
             \o (IF lines[1][Len(lines[1])] # NL THEN <<NL, NoNewlineAtEnd, NL>> ELSE <<>>)
             \o WithNewlines(Tail(lines))
        : lines \in {lines_} } : TRUE

get_diff_text(old, new) ==
    IF old = new THEN <<>>
    ELSE WithNewlines(<< <<"--- original/", NL>>, <<"+++ fixed/", NL>>, <<"@@", NL>> >>
                      \o DiffLines(old, new))

UnusedDetected == <<"Unused imports/variables detected", NL>>
NoIssuesDetected == <<"No issues detected!", NL>>

\* _fix_file after fix_code has returned, and the return of _main.
FixFileWrite ==
    /\ pc = "returned" /\ args.entry = "_main"
    /\ pc' = "exit"
    /\ \E diff \in {get_diff_text(ReadLines(file), ReadLines(filtered_source))} :
          IF file # filtered_source
          THEN IF args.check
               THEN /\ standard_out' = standard_out \o UnusedDetected
                    /\ exit_status' = 1
                    /\ UNCHANGED file
               ELSE IF args.check_diff
               THEN /\ standard_out' = standard_out \o diff
                    /\ exit_status' = 1
                    /\ UNCHANGED file
               ELSE IF args.write_to_stdout
               THEN /\ standard_out' = standard_out \o filtered_source
                    /\ exit_status' = 0
                    /\ UNCHANGED file
               ELSE IF args.in_place
               THEN /\ file' = filtered_source
                    /\ exit_status' = 0
                    /\ UNCHANGED standard_out
               ELSE /\ standard_out' = standard_out \o diff
                    /\ exit_status' = 0
                    /\ UNCHANGED file
          ELSE /\ exit_status' = 0
               /\ UNCHANGED file
               /\ standard_out' =
                      IF args.write_to_stdout THEN standard_out \o filtered_source
                      ELSE IF (args.check \/ args.check_diff) /\ ~args.quiet
                      THEN standard_out \o NoIssuesDetected
                      ELSE standard_out
    /\ UNCHANGED << files, standard_error, call, value, args, analyzer_raises, original, run, opts, source,
                    remove_unused_variables, marks, line_number, previous_line,
                    result, yielded, filtered_source, first_result, passes >>

(***************************************************************************)
(* The sources and arguments explored                                      *)
(***************************************************************************)
ImportOs == <<"import", SP, "os", NL>>
ImportOsNoqa == <<"import", SP, "os", SP, SP, NoqaComment, NL>>
ImportThis == <<"import", SP, "this", NL>>
ImportMylib == <<"import", SP, "mylib", NL>>
ImportNonlocalLib == <<"import", SP, "nonlocal_lib", NL>>
FromDotImport == <<"from", SP, ".", SP, "import", SP, "fake_bar", NL>>
UseOs == <<"x", SP, "=", SP, "os", NL>>
DefF == <<"def", SP, "f", "(", ")", ":", NL>>
IndXEq1 == <<IND, "x", SP, "=", SP, "1", NL>>
IndXEqFoo == <<IND, "x", SP, "=", SP, "foo", "(", ")", NL>>
IndPass == <<IND, "pass", NL>>
Pass == <<"pass", NL>>
XEq1 == <<"x", SP, "=", SP, "1", NL>>
FromOsImportOpen == <<"from", SP, "os", SP, "import", SP, "(", "path", ",", NL>>
IndSepClose == <<IND, "sep", ")", NL>>
ImportOsSemi == <<"import", SP, "os", ";", SP, "x", SP, "=", SP, StrParen, NL>>
YEqX == <<"y", SP, "=", SP, "x", NL>>
ImportOsReBackslash == <<"import", SP, "os", ",", SP, "re", ",", SP, BS, NL>>
IndThis == <<IND, "this", NL>>
SkipFile == <<SkipComment, NL>>
FromOsImportPathSep ==
    <<"from", SP, "os", SP, "import", SP, "path", ",", SP, "sep", NL>>
FromMylibImportPathSep ==
    <<"from", SP, "mylib", SP, "import", SP, "path", ",", SP, "sep", NL>>
UsePath == <<"x", SP, "=", SP, "path", NL>>

\* The arguments of a call of fix_code, or of a command line (_main).
Arguments(entry, has_imports, imports, all, variables, rhs, ignore_pass, out) ==
    [ entry |-> entry, has_imports |-> has_imports, imports |-> imports,
      expand_star_imports |-> FALSE, remove_duplicate_keys |-> FALSE,
      remove_all_unused_imports |-> all, remove_unused_variables |-> variables,
      remove_rhs_for_unused_variables |-> rhs,
      ignore_pass_statements |-> ignore_pass,
      check |-> out = "check" \/ out = "check_quiet",
      check_diff |-> out = "check_diff",
      write_to_stdout |-> out = "stdout", in_place |-> out = "in_place",
      quiet |-> out = "check_quiet" ]

Call(has_imports, imports, all, variables, rhs, ignore_pass) ==
    Arguments("fix_code", has_imports, imports, all, variables, rhs, ignore_pass, "")

CommandLine(has_imports, imports, all, variables, rhs, out) ==
    Arguments("_main", has_imports, imports, all, variables, rhs, FALSE, out)

\* The same arguments with remove_duplicate_keys / expand_star_imports set.
RemoveDuplicateKeys(a) == [a EXCEPT !.remove_duplicate_keys = TRUE]
ExpandStarImports(a) == [a EXCEPT !.expand_star_imports = TRUE]

ImportFamily ==
    [ lines |-> {ImportOs, ImportOsNoqa, ImportThis, ImportMylib, FromDotImport,
                 UseOs},
      raises |-> {FALSE},
      arguments |-> { Call(FALSE, <<>>, FALSE, FALSE, FALSE, FALSE),
                      Call(FALSE, <<>>, TRUE, FALSE, FALSE, FALSE),
                      Call(TRUE, <<"mylib">>, FALSE, FALSE, FALSE, FALSE),
                      CommandLine(FALSE, <<>>, FALSE, FALSE, FALSE, "stdout"),
                      CommandLine(FALSE, <<>>, FALSE, FALSE, FALSE, ""),
                      CommandLine(TRUE, <<"mylib">>, FALSE, FALSE, FALSE, "in_place") } ]

VariableFamily ==
    [ lines |-> {DefF, IndXEq1, IndXEqFoo, IndPass, ImportNonlocalLib},
      raises |-> {FALSE},
      arguments |-> { Call(FALSE, <<>>, FALSE, TRUE, FALSE, FALSE),
                      Call(FALSE, <<>>, FALSE, TRUE, TRUE, FALSE),
                      Call(FALSE, <<>>, TRUE, TRUE, FALSE, FALSE),
                      Call(FALSE, <<>>, TRUE, TRUE, FALSE, TRUE),
                      CommandLine(FALSE, <<>>, FALSE, FALSE, TRUE, "stdout"),
                      CommandLine(FALSE, <<>>, TRUE, TRUE, FALSE, "check") } ]

MultilineFamily ==
    [ lines |-> {FromOsImportOpen, IndSepClose, ImportOsSemi, YEqX,
                 ImportOsReBackslash, IndThis},
      raises |-> {FALSE},
      arguments |-> { Call(FALSE, <<>>, FALSE, FALSE, FALSE, FALSE),
                      Call(FALSE, <<>>, TRUE, FALSE, FALSE, FALSE),
                      CommandLine(FALSE, <<>>, FALSE, FALSE, FALSE, "check_diff") } ]

FailureFamily ==
    [ lines |-> {ImportOs, Pass, DefF, IndPass, IndXEq1},
      raises |-> {TRUE},
      arguments |-> { Call(FALSE, <<>>, TRUE, TRUE, FALSE, FALSE),
                      Call(FALSE, <<>>, TRUE, TRUE, FALSE, TRUE),
                      CommandLine(FALSE, <<>>, FALSE, FALSE, FALSE, "stdout") } ]

SkipFamily ==
    [ lines |-> {SkipFile, ImportOs, ImportMylib, XEq1},
      raises |-> {FALSE},
      arguments |-> { CommandLine(FALSE, <<>>, FALSE, FALSE, FALSE, "stdout"),
                      CommandLine(FALSE, <<>>, FALSE, FALSE, FALSE, "check_quiet"),
                      CommandLine(FALSE, <<>>, TRUE, FALSE, FALSE, "check") } ]

FromImportFamily ==
    [ lines |-> {FromOsImportPathSep, FromMylibImportPathSep, UsePath},
      raises |-> {FALSE},
      arguments |-> { Call(FALSE, <<>>, FALSE, FALSE, FALSE, FALSE),
                      Call(FALSE, <<>>, TRUE, FALSE, FALSE, FALSE),
                      CommandLine(FALSE, <<>>, FALSE, FALSE, FALSE, "stdout") } ]

Families ==
    {ImportFamily, VariableFamily, MultilineFamily, FailureFamily, SkipFamily,
     FromImportFamily}

\* The texts of at most MaxLines lines of a family (the empty text included).
Sources(family) ==
    { Join(p) : p \in UNION { [1..n -> family.lines] : n \in 0..MaxLines } }

\* No function is called on its own.
NoCall == [function |-> ""]
NotReturned == [returned |-> FALSE, value |-> <<>>]
Returned(v) == [returned |-> TRUE, value |-> v]

\* The variables of fix_code and _fix_file before they are entered.
NotEntered ==
        /\ pc = "start"
        /\ run = 1
        /\ opts = NoOpts
        /\ source = <<>>
        /\ remove_unused_variables = FALSE
        /\ marks = NoMarks
        /\ line_number = 1
        /\ previous_line = <<>>
        /\ result = TextResult(<<>>)
        /\ yielded = <<>>
        /\ filtered_source = <<>>
        /\ first_result = <<>>
        /\ standard_out = <<>>
        /\ exit_status = -1
        /\ passes = 0

\* No run over several files.
NoFiles ==
    /\ files = <<>>
    /\ standard_error = <<>>

\* The program is started with one of the arguments on one of the sources.
Start(arguments, raises, sources) ==
    /\ NoFiles
    /\ args \in arguments
    /\ analyzer_raises \in raises
    /\ original \in sources
    /\ file = original
    /\ NotEntered
    /\ call = NoCall
    /\ value = NotReturned

Init ==
    \E family \in Families :
        Start(family.arguments, family.raises, Sources(family))

Next ==
    \/ Main
    \/ FixCode
    \/ FilterCodeLine
    \/ FilterUselessPass
    \/ Again
    \/ FixFileWrite

Spec == Init /\ [][Next]_vars

\* The scheduling of a sequential program: a step that can be taken is taken.
FairSpec == Spec /\ WF_vars(Next)

(***************************************************************************)
(* Assignments in a function                                               *)
(***************************************************************************)
IndAEq1SemiBackslash == <<IND, "a", SP, "=", SP, "1", ";", SP, BS, NL>>
IndXEqYEq1 == <<IND, "x", SP, "=", SP, "y", SP, "=", SP, "1", NL>>
IndXEq1SemiPass == <<IND, "x", SP, "=", SP, "1", ";", SP, "pass", NL>>
IndDefG == <<IND, "def", SP, "g", "(", ")", ":", NL>>
Ind2NonlocalX == <<IND, IND, "nonlocal", SP, "x", NL>>
Ind2XEq2 == <<IND, IND, "x", SP, "=", SP, "2", NL>>
Ind2Pass == <<IND, IND, "pass", NL>>

BodyLines == {IndXEq1, IndAEq1SemiBackslash, IndXEqYEq1, IndXEq1SemiPass, IndPass}

MaxBody == 3

\* def f(): with a body of at most MaxBody lines.
FunctionSources ==
    { DefF \o Join(p) : p \in UNION { [1..n -> BodyLines] : n \in 1..MaxBody } }

\* def f(): x = 1, and a nested def g(): whose body rebinds x as nonlocal.
\* The analyzer reports both bindings of x as unused: it "does not handle
\* nonlocal correctly" (fix_code).
NonlocalSources ==
    { DefF \o IndXEq1 \o IndDefG \o Ind2NonlocalX \o last :
        last \in {Ind2XEq2, Ind2Pass} }

UnusedVariableInit ==
    Start({ Call(FALSE, <<>>, FALSE, TRUE, FALSE, FALSE),
            Call(FALSE, <<>>, FALSE, TRUE, TRUE, FALSE),
            CommandLine(FALSE, <<>>, FALSE, TRUE, FALSE, "in_place") },
          {FALSE}, FunctionSources \cup NonlocalSources)

UnusedVariableSpec == UnusedVariableInit /\ [][Next]_vars

(***************************************************************************)
(* Star imports                                                            *)
(***************************************************************************)
FromOsImportStar == <<"from", SP, "os", SP, "import", SP, "*", NL>>
FromReImportStar == <<"from", SP, "re", SP, "import", SP, "*", NL>>
FromOsImportStarNoqa == <<"from", SP, "os", SP, "import", SP, "*", SP, SP, NoqaComment, NL>>
XEqSep == <<"x", SP, "=", SP, "sep", NL>>
YEqPath == <<"y", SP, "=", SP, "path", NL>>
YEqSep == <<"y", SP, "=", SP, "sep", NL>>
YEqAll == <<"y", SP, "=", SP, "__all__", NL>>
DelX == <<"del", SP, "x", NL>>

StarLines == {FromOsImportStar, FromReImportStar, FromOsImportStarNoqa}
UseLines == {XEqSep, YEqPath, YEqSep}

MaxStars == 2
MaxUses == 2

\* One or two star imports, the statements that use names nothing else
\* binds, and a last line that may hold the word del or __all__.  The del
\* statement comes last, so that nothing is looked up after the binding it
\* removes.
StarSources ==
    { Join(stars) \o Join(uses) \o last :
        stars \in UNION { [1..n -> StarLines] : n \in 1..MaxStars },
        uses \in UNION { [1..n -> UseLines] : n \in 0..MaxUses },
        last \in {<<>>, DelX, YEqAll} }

StarImportInit ==
    Start({ ExpandStarImports(Call(FALSE, <<>>, FALSE, FALSE, FALSE, FALSE)),
            Call(FALSE, <<>>, FALSE, FALSE, FALSE, FALSE),
            ExpandStarImports(CommandLine(FALSE, <<>>, FALSE, FALSE, FALSE,
                                          "in_place")) },
          {FALSE}, StarSources)

StarImportSpec == StarImportInit /\ [][Next]_vars

(***************************************************************************)
(* Dict displays with repeated keys                                        *)
(***************************************************************************)
DictOpen == <<"x", SP, "=", SP, "{", NL>>
DictClose == <<"}", NL>>
KeyX1 == <<IND, StrX, ":", SP, "1", ",", NL>>
KeyX2 == <<IND, StrX, ":", SP, "2", ",", NL>>
KeyY1 == <<IND, StrY, ":", SP, "1", ",", NL>>
KeyY2 == <<IND, StrY, ":", SP, "2", ",", NL>>
KeyX2Noqa == <<IND, StrX, ":", SP, "2", ",", SP, SP, NoqaComment, NL>>
KeyXTuple == <<IND, StrX, ":", SP, "(", "1", ",", NL, IND, "2", ")", ",", NL>>

DictEntryLines == {KeyX1, KeyX2, KeyY1, KeyY2, KeyX2Noqa, KeyXTuple}

MaxEntries == 4

\* x = { ... } with at most MaxEntries entries.
DictSources ==
    { DictOpen \o Join(p) \o DictClose :
        p \in UNION { [1..n -> DictEntryLines] : n \in 0..MaxEntries } }

DuplicateKeyInit ==
    Start({ RemoveDuplicateKeys(Call(FALSE, <<>>, FALSE, FALSE, FALSE, FALSE)),
            RemoveDuplicateKeys(CommandLine(FALSE, <<>>, FALSE, FALSE, FALSE,
                                            "in_place")) },
          {FALSE}, DictSources)

DuplicateKeySpec == DuplicateKeyInit /\ [][Next]_vars

(***************************************************************************)
(* A run of _main over several files                                       *)
(***************************************************************************)
\* filter_code as a function: the text yielded from line n on.
RECURSIVE filter_code_from(_, _, _, _, _, _)
filter_code_yield(lines_, n_, new_, marks_, opts_) ==
    CHOOSE returned \in {
        (IF new.pending THEN <<>> ELSE new.text)
        \o filter_code_from(lines, n + 1, new, lines[n], m, o)
        : lines \in {lines_}, n \in {n_}, new \in {new_}, m \in {marks_},
          o \in {opts_} } : TRUE

filter_code_from(lines_, n_, result_, previous_line_, marks_, opts_) ==
    CHOOSE returned \in {
        IF n > Len(lines) THEN <<>>
        ELSE filter_code_yield(lines, n,
                               FilterCodeLineResult(lines[n], n, r, p, m, o),
                               m, o)
        : lines \in {lines_}, n \in {n_}, r \in {result_},
          p \in {previous_line_}, m \in {marks_}, o \in {opts_} } : TRUE

filter_code(source_, opts_, remove_unused_variables_) ==
    CHOOSE returned \in {
        filter_code_from(ReadLines(src), 1, TextResult(<<>>), <<>>,
                         FilterCodeMarks(src, check(src, FALSE), o, ruv), o)
        : src \in {source_}, o \in {opts_},
          ruv \in {remove_unused_variables_} } : TRUE

\* fix_code as a function: the loop, until a pass changes nothing.
RECURSIVE fix_code_loop(_, _, _)
fix_code_compare(source_, filtered_, opts_, remove_unused_variables_) ==
    CHOOSE returned \in {
        IF filtered = src THEN filtered ELSE fix_code_loop(filtered, o, ruv)
        : src \in {source_}, filtered \in {filtered_}, o \in {opts_},
          ruv \in {remove_unused_variables_} } : TRUE

fix_code_loop(source_, opts_, remove_unused_variables_) ==
    CHOOSE returned \in {
        fix_code_compare(src,
                         filter_useless_pass(filter_code(src, o, ruv),
                                             o.ignore_pass_statements,
                                             o.ignore_pass_after_docstring),
                         o, ruv)
        : src \in {source_}, o \in {opts_},
          ruv \in {remove_unused_variables_} } : TRUE

fix_code(source_, opts_) ==
    CHOOSE returned \in {
        IF src = <<>> THEN src
        ELSE fix_code_loop(src, o, o.remove_unused_variables /\ ~HasNonlocal(src))
        : src \in {source_}, o \in {opts_} } : TRUE

\* What a call of fix_file or _fix_file comes to: an OSError raised or a
\* value returned, the text of the file afterwards, the text written to
\* standard_out.
Raised(text) ==
    [raised |-> TRUE, returned |-> -1, text |-> text, out |-> <<>>]
FileReturn(returned, text, out) ==
    [raised |-> FALSE, returned |-> returned, text |-> text, out |-> out]

\* _fix_file with --in-place looked at before --check, to compare with.
_fix_file_write_InPlaceFirst(original_source_, filtered_source_, a_) ==
    CHOOSE returned \in {
        IF original_source # filtered /\ a.in_place
        THEN FileReturn(0, filtered, <<>>)
        ELSE IF original_source # filtered /\ (a.check \/ a.check_diff)
        THEN FileReturn(1, original_source, UnusedDetected)
        ELSE FileReturn(0, original_source, <<>>)
        : original_source \in {original_source_}, filtered \in {filtered_source_},
          a \in {a_} } : TRUE

\* _fix_file once fix_code has returned.
_fix_file_write(original_source_, filtered_source_, a_) ==
    CHOOSE returned \in {
        IF original_source # filtered
        THEN IF a.check
             THEN FileReturn(1, original_source, UnusedDetected)
             ELSE IF a.check_diff
             THEN FileReturn(1, original_source,
                             get_diff_text(ReadLines(original_source),
                                           ReadLines(filtered)))
             ELSE IF a.write_to_stdout
             THEN FileReturn(0, original_source, filtered)
             ELSE IF a.in_place
             THEN FileReturn(0, filtered, <<>>)
             ELSE FileReturn(0, original_source,
                             get_diff_text(ReadLines(original_source),
                                           ReadLines(filtered)))
        ELSE IF a.write_to_stdout
        THEN FileReturn(0, original_source, filtered)
        ELSE IF (a.check \/ a.check_diff) /\ ~a.quiet
        THEN FileReturn(0, original_source, NoIssuesDetected)
        ELSE FileReturn(0, original_source, <<>>)
        : original_source \in {original_source_}, filtered \in {filtered_source_},
          a \in {a_} } : TRUE

_fix_file(source_, a_) ==
    CHOOSE returned \in {
        _fix_file_write(src, fix_code(src, FixFileOpts(a)), a)
        : src \in {source_}, a \in {a_} } : TRUE

\* fix_file(filename, args): a file that cannot be opened raises OSError.
fix_file(f_, a_) ==
    CHOOSE returned \in {
        IF ~f.readable THEN Raised(f.text) ELSE _fix_file(f.text, a)
        : f \in {f_}, a \in {a_} } : TRUE

\* exit_status |= ... with the value returned only, to compare with.
exit_status_or_Returned(status, outcome) ==
    IF outcome.returned = 1 THEN 1 ELSE status

\* exit_status |= fix_file(...), and exit_status |= 1 after an OSError.
exit_status_or(status, outcome) ==
    IF outcome.raised \/ outcome.returned = 1 THEN 1 ELSE status

\* The files of a run: at most MaxFiles files, each one missing, in need of
\* a fix (an unused import) or clean.
MaxFiles == 3

Listed(readable, text) ==
    [ readable |-> readable, source |-> text, text |-> text,
      state |-> "listed", raised |-> FALSE, returned |-> -1 ]

RunFiles ==
    UNION { [1..n -> {Listed(FALSE, <<>>), Listed(TRUE, ImportOs),
                      Listed(TRUE, XEq1)}] : n \in 1..MaxFiles }

\* The command lines of a run: the output options, alone and with
\* --in-place, the number of jobs, and whether standard_out is given.
InPlace(a) == [a EXCEPT !.in_place = TRUE]

RunArguments ==
    { [jobs |-> jobs, standard_out_given |-> given] @@ a :
        a \in { CommandLine(FALSE, <<>>, FALSE, FALSE, FALSE, out) :
                  out \in {"", "stdout", "in_place", "check", "check_diff",
                           "check_quiet"} }
              \cup { InPlace(CommandLine(FALSE, <<>>, FALSE, FALSE, FALSE, out)) :
                       out \in {"check", "check_diff"} }
              \cup { CommandLine(FALSE, <<>>, FALSE, FALSE, TRUE, "check") },
        jobs \in {1, 2}, given \in BOOLEAN }

RunInit ==
    /\ args \in RunArguments
    /\ files \in RunFiles
    /\ standard_error = <<>>
    /\ analyzer_raises = FALSE
    /\ original = <<>>
    /\ file = <<>>
    /\ NotEntered
    /\ call = NoCall
    /\ value = NotReturned

\* The variables of fix_code, which the run does not use.
fix_code_variables ==
    << analyzer_raises, original, run, opts, source, remove_unused_variables,
       marks, line_number, previous_line, result, yielded, filtered_source,
       first_result, file, passes, call, value, args >>

\* The file of files[i] after fix_file has come to outcome.
Outcome(f, state, outcome) ==
    [f EXCEPT !.state = state, !.text = outcome.text,
              !.raised = outcome.raised, !.returned = outcome.returned]

OSErrorLogged(i) == <<"OSError", i>>

\* _main up to the files: the arguments are checked, and the files are
\* either left to the loop or all given to the pool.
MainFiles ==
    /\ pc = "start" /\ args.entry = "_main" /\ files # <<>>
    /\ IF args.remove_rhs_for_unused_variables /\ ~args.remove_unused_variables
       THEN /\ pc' = "exit"
            /\ exit_status' = 1
            /\ UNCHANGED files
       ELSE /\ exit_status' = 0
            /\ IF args.jobs = 1 \/ Len(files) = 1 \/ args.standard_out_given
               THEN /\ pc' = "files"
                    /\ UNCHANGED files
               ELSE /\ pc' = "pool"
                    /\ files' = [i \in DOMAIN files |->
                                    [files[i] EXCEPT !.state = "applied"]]
    /\ UNCHANGED << standard_out, standard_error, fix_code_variables >>

\* for name in files: one iteration, and the return after the last one.
MainFixFile ==
    /\ pc = "files"
    /\ \E i \in DOMAIN files :
          /\ files[i].state = "listed"
          /\ \A j \in 1..(i - 1) : files[j].state # "listed"
          /\ \E outcome \in {fix_file(files[i], args)} :
                /\ files' = [files EXCEPT ![i] = Outcome(@, "got", outcome)]
                /\ standard_out' = standard_out \o outcome.out
                /\ standard_error' =
                       IF outcome.raised
                       THEN Append(standard_error, OSErrorLogged(i))
                       ELSE standard_error
                /\ exit_status' = exit_status_or(exit_status, outcome)
          /\ pc' = IF i = Len(files) THEN "exit" ELSE "files"
    /\ UNCHANGED fix_code_variables

\* A worker of the pool runs fix_file on one of the files given to it.
PoolWorker ==
    /\ pc = "pool"
    /\ \E i \in DOMAIN files :
          /\ files[i].state = "applied"
          /\ \E outcome \in {fix_file(files[i], args)} :
                /\ files' = [files EXCEPT ![i] = Outcome(@, "finished", outcome)]
                /\ standard_out' = standard_out \o outcome.out
    /\ UNCHANGED << pc, exit_status, standard_error, fix_code_variables >>

\* for fut in futs: fut.get() once the worker has finished, and the return
\* after the last one.
FutGet ==
    /\ pc = "pool"
    /\ \E i \in DOMAIN files :
          /\ files[i].state = "finished"
          /\ \A j \in 1..(i - 1) : files[j].state = "got"
          /\ files' = [files EXCEPT ![i].state = "got"]
          /\ standard_error' =
                 IF files[i].raised
                 THEN Append(standard_error, OSErrorLogged(i))
                 ELSE standard_error
          /\ exit_status' = exit_status_or(exit_status, files[i])
          /\ pc' = IF i = Len(files) THEN "exit" ELSE "pool"
    /\ UNCHANGED << standard_out, fix_code_variables >>

RunNext ==
    \/ MainFiles
    \/ MainFixFile
    \/ PoolWorker
    \/ FutGet

RunSpec == RunInit /\ [][RunNext]_vars

(***************************************************************************)
(* The functions of the module called on their own                         *)
(***************************************************************************)
program ==
    << files, standard_error, args, analyzer_raises, original, pc, run, opts, source,
       remove_unused_variables, marks, line_number, previous_line, result,
       yielded, filtered_source, first_result, standard_out, file, exit_status,
       passes >>

Indentations == {<<>>, <<IND>>}
Endings == {<<>>, <<NL>>}

\* Right-hand sides of an assignment: literals, names and empty collections;
\* other expressions; a call with a keyword argument; an open call.
PlainValues ==
    { <<"1">>, <<StrParen>>, <<"y">>, <<"{", "}">>, <<"dict", "(", ")">>,
      <<"list", "(", ")">>, <<"set", "(", ")">> }
OtherValues == { <<"foo", "(", ")">>, <<"foo", "(", "y", ")">>, <<"os", ".", "path">> }
KeywordValues == { <<"foo", "(", "y", "=", "1", ")">> }
OpenValues == { <<"foo", "(", "y", ",">> }
Values == PlainValues \cup OtherValues \cup KeywordValues \cup OpenValues

\* Targets: one name, two targets, a tuple.
Targets == { <<"x">>, <<"x", SP, "=", SP, "y">>, <<"x", ",", SP, "y">> }

\* What follows the right-hand side on the line.
Tails == { <<>>, <<";">>, <<SP, BS>> }

PreviousLines == { <<>>, <<"foo", "(", ")", NL>>, <<"y", SP, "=", SP, BS, NL>> }

Assignment(indentation, target, rhs, tail, ending) ==
    indentation \o target \o <<SP, "=", SP>> \o rhs \o tail \o ending

UnusedVariableCalls ==
    { [ function |-> "filter_unused_variable",
        line |-> Assignment(indentation, target, rhs, tail, ending),
        previous_line |-> previous, drop_rhs |-> drop_rhs ] :
      indentation \in Indentations, target \in Targets, rhs \in Values,
      tail \in Tails, ending \in Endings, previous \in PreviousLines,
      drop_rhs \in BOOLEAN }

\* Comma lists of one to three different names, in every order.
ImportedNames == <<"a", "path", "sep">>
NameLists ==
    { list \in UNION { [1..n -> 1..Len(ImportedNames)] : n \in 1..Len(ImportedNames) } :
          \A i, j \in DOMAIN list : i # j => list[i] # list[j] }
CommaList(list) == JoinWith(<<",", SP>>, [i \in DOMAIN list |-> <<ImportedNames[list[i]]>>])

\* The unused modules pyflakes names for a from-import of os: some of os.a,
\* os.path, os.sep.
UnusedOf(chosen) ==
    [ i \in DOMAIN SelectSeq(<<1, 2, 3>>, LAMBDA k : k \in chosen) |->
          <<"os", ".", ImportedNames[SelectSeq(<<1, 2, 3>>, LAMBDA k : k \in chosen)[i]]>> ]

FromImportCalls ==
    { [ function |-> "filter_from_import",
        line |-> indentation \o <<"from", SP, "os", SP, "import", SP>>
                 \o CommaList(list) \o ending,
        unused_module |-> UnusedOf(chosen) ] :
      indentation \in Indentations, list \in NameLists, ending \in Endings,
      chosen \in SUBSET (1..3) }

BreakUpImportCalls ==
    { [ function |-> "break_up_import",
        line |-> indentation \o <<"import", SP>> \o CommaList(list) \o ending ] :
      indentation \in Indentations, list \in NameLists, ending \in Endings }

\* Layouts of an import list over several lines: what stands before the
\* first name, between two names and after the last one.
Layouts ==
    { [open |-> <<"(">>, sep |-> <<",", NL, IND>>, close |-> <<")", NL>>],
      [open |-> <<"(">>, sep |-> <<",", NL, IND>>, close |-> <<",", ")", NL>>],
      [open |-> <<"(", NL, IND>>, sep |-> <<",", NL, IND>>,
       close |-> <<",", NL, ")", NL>>],
      [open |-> <<>>, sep |-> <<",", SP, BS, NL, IND>>, close |-> <<NL>>] }

LaidOut(layout, list) ==
    layout.open
    \o JoinWith(layout.sep, [i \in DOMAIN list |-> <<ImportedNames[list[i]]>>])
    \o layout.close

\* The two kinds of import statement, with the prefix pyflakes puts before
\* a name of the list.
Statements ==
    { [head |-> <<"from", SP, "os", SP, "import", SP>>, prefix |-> <<"os", ".">>],
      [head |-> <<"import", SP>>, prefix |-> <<>>] }

\* Only a from-import may be parenthesized.
Shapes ==
    { shape \in Statements \X Layouts :
          shape[1].prefix = <<>> => shape[2].open = <<>> }

UnusedWith(prefix, chosen) ==
    [ i \in DOMAIN UnusedOf(chosen) |-> prefix \o <<UnusedOf(chosen)[i][3]>> ]

MultilineImportCalls ==
    { [ function |-> "FilterMultilineImport",
        lines |-> ReadLines(shape[1].head \o LaidOut(shape[2], list)),
        unused_module |-> UnusedWith(shape[1].prefix, chosen),
        remove_all_unused_imports |-> remove_all,
        previous_line |-> <<>> ] :
      shape \in Shapes, list \in NameLists,
      chosen \in SUBSET (1..3), remove_all \in BOOLEAN }

\* From-imports of a and re over several lines, where the statement may
\* have to be left as it is: the package is os or mylib, a line may hold a
\* comment or a second statement, the line before may end with a backslash;
\* the word import is followed by one space, by two, or by none.
Bases == {"os", "mylib"}
Gaps == {<<SP>>, <<SP, SP>>, <<>>}
LineTails == {<<NL>>, <<SP, SP, NoqaComment, NL>>}
LastTails == LineTails \cup {<<";", SP, "x", SP, "=", SP, "1", NL>>}
MiddleLines == {<<>>, <<IND, "path", ",", NL>>}
LinesBefore == {<<>>, <<"if", SP, "True", ":", SP, BS, NL>>}

UnusedAmong(base, chosen) ==
    [ i \in DOMAIN SelectSeq(<<"a", "re">>, LAMBDA n : n \in chosen) |->
          <<base, ".", SelectSeq(<<"a", "re">>, LAMBDA n : n \in chosen)[i]>> ]

GiveUpCalls ==
    { [ function |-> "FilterMultilineImport",
        lines |-> ReadLines(<<"from", SP, base, SP, "import">> \o gap
                            \o <<"(", "a", ",">> \o first \o middle
                            \o <<IND, "re", ")">> \o last),
        unused_module |-> UnusedAmong(base, chosen),
        remove_all_unused_imports |-> remove_all,
        previous_line |-> before ] :
      base \in Bases, gap \in Gaps, first \in LineTails, middle \in MiddleLines,
      last \in LastTails, chosen \in SUBSET {"a", "re"},
      remove_all \in BOOLEAN, before \in LinesBefore }

\* An import at the end of a line that holds a call, then the lines after it.
IfFImportOs == <<"if", SP, "f", "(", ")", ":", SP, "import", SP, "os", NL>>
YEqG == <<"y", SP, "=", SP, "g", "(", ")", NL>>

InlineImportCalls ==
    { [ function |-> "FilterMultilineImport",
        lines |-> <<IfFImportOs>> \o rest,
        unused_module |-> << <<"os">> >>,
        remove_all_unused_imports |-> remove_all,
        previous_line |-> <<>> ] :
      rest \in {<<>>, <<XEq1>>, <<XEq1, YEqG>>}, remove_all \in BOOLEAN }

\* The body of def f(): a docstring, blank lines, pass statements, another
\* statement, a nested block, and a line that opens a parenthesis nothing
\* closes.
IndDocString == <<IND, DocString, NL>>
BlankLine == <<NL>>
IndIfTrue == <<IND, "if", SP, "True", ":", NL>>
IndXEqOpen == <<IND, "x", SP, "=", SP, "(", NL>>

PassBodyLines ==
    {IndDocString, BlankLine, IndPass, IndXEq1, IndIfTrue, Ind2Pass, IndXEqOpen}

MaxPassBody == 4

UselessPassCalls ==
    { [ function |-> "filter_useless_pass",
        source |-> DefF \o Join(p),
        ignore_pass_statements |-> FALSE,
        ignore_pass_after_docstring |-> after_docstring ] :
      p \in UNION { [1..n -> PassBodyLines] : n \in 1..MaxPassBody },
      after_docstring \in BOOLEAN }

Calls ==
    UnusedVariableCalls \cup FromImportCalls \cup BreakUpImportCalls
    \cup MultilineImportCalls \cup GiveUpCalls \cup InlineImportCalls
    \cup UselessPassCalls

CallFilterUnusedVariable ==
    /\ call.function = "filter_unused_variable" /\ ~value.returned
    /\ value' = Returned(filter_unused_variable(call.line, call.previous_line,
                                                 call.drop_rhs))
    /\ UNCHANGED << call, program >>

CallFilterFromImport ==
    /\ call.function = "filter_from_import" /\ ~value.returned
    /\ value' = Returned(filter_from_import(call.line, call.unused_module))
    /\ UNCHANGED << call, program >>

CallBreakUpImport ==
    /\ call.function = "break_up_import" /\ ~value.returned
    /\ value' = Returned(break_up_import(call.line))
    /\ UNCHANGED << call, program >>

\* The lines that follow the first one are fed to the PendingFix until it
\* returns a text.
RECURSIVE Feed(_, _)
Feed(filter_, lines_) ==
    CHOOSE returned \in {
        IF lines = <<>> \/ ~filter.pending THEN filter
        ELSE Feed(FilterMultilineImportCall(filter.fix, lines[1]), Tail(lines))
        : filter \in {filter_}, lines \in {lines_} } : TRUE

\* FilterMultilineImport(line, ...)() and then a call for each further line.
CallFilterMultilineImport ==
    /\ call.function = "FilterMultilineImport" /\ ~value.returned
    /\ value' = Returned(
           Feed(FilterMultilineImportCall(
                    FilterMultilineImportInit(call.lines[1], call.unused_module,
                                              call.remove_all_unused_imports,
                                              SAFE_IMPORTS, call.previous_line),
                    <<>>),
                Tail(call.lines)))
    /\ UNCHANGED << call, program >>

CallFilterUselessPass ==
    /\ call.function = "filter_useless_pass" /\ ~value.returned
    /\ value' = Returned(filter_useless_pass(call.source,
                                              call.ignore_pass_statements,
                                              call.ignore_pass_after_docstring))
    /\ UNCHANGED << call, program >>

CallInit ==
    /\ NoFiles
    /\ call \in Calls
    /\ value = NotReturned
    /\ args = Call(FALSE, <<>>, FALSE, FALSE, FALSE, FALSE)
    /\ analyzer_raises = FALSE
    /\ original = <<>>
    /\ file = <<>>
    /\ NotEntered

CallNext ==
    \/ CallFilterUnusedVariable
    \/ CallFilterFromImport
    \/ CallBreakUpImport
    \/ CallFilterMultilineImport
    \/ CallFilterUselessPass

CallSpec == CallInit /\ [][CallNext]_vars

(***************************************************************************)
(* Properties                                                              *)
(***************************************************************************)
\* fix_code has returned to the caller of the first application.
FirstReturn == pc = "returned" /\ run = 1

\* fix_code has returned from its application to its own result.
SecondReturn == args.entry = "fix_code" /\ pc = "returned" /\ run = 2

\* C1: fix_code is idempotent: applied to its own result with the same
\* options, it returns that result again.
C1_Idempotent == SecondReturn => filtered_source = first_result

\* C2: syntax preservation: when the source given compiles, the text that
\* fix_code returns compiles.
C2_SyntaxPreserved ==
    (FirstReturn /\ Compiles(original)) => Compiles(filtered_source)

\* C3: the fixed-point driver terminates: every loop of fix_code that has
\* been entered reaches a pass whose output equals its input, and returns.
C3_DriverTerminates == (pc = "filter_code") ~> (pc = "returned")

\* fix_code has returned after a pass that changed the text and at least
\* two more passes.
C3_Witness == pc = "returned" /\ passes >= 3 /\ filtered_source = source

\* The line filter_code is about to handle, and the step that handles it.
CurrentLine == ReadLines(source)[line_number]

FilterCodeStep ==
    /\ pc = "filter_code"
    /\ line_number <= Len(ReadLines(source))
    /\ line_number' = line_number + 1

\* The line is handed to filter_unused_import or filter_unused_variable.
FlaggedLine ==
    /\ ~result.pending
    /\ ~HasChar(HASH, CurrentLine)
    /\ line_number \in marks.marked_import_line_numbers
                       \cup marks.marked_variable_line_numbers

\* Physical line n of the text holds the only statement of its block.
SoleStatementOfBlock(text, n) ==
    \E parsed \in {Parsed(text)} : \E i \in DOMAIN parsed :
        /\ parsed[i].first = n
        /\ Len(parsed[i].stmts) = 1
        /\ i > 1 /\ IsOpener(parsed[i - 1])
        /\ (i < Len(parsed) => parsed[i + 1].ind < parsed[i].ind)

\* C4: when filter_code removes the statement of a flagged line (unused
\* import or unused variable) that is the only statement of its block, it
\* emits `pass` at the same indentation in its place.
C4_PassPlaceholder ==
    [][ ( /\ FilterCodeStep
          /\ FlaggedLine
          /\ Compiles(source)
          /\ SoleStatementOfBlock(source, line_number)
          /\ ~result'.pending
          /\ Canon(result'.text) \in {<<>>, <<"pass">>} )
        => result'.text = get_indentation(CurrentLine) \o <<"pass">>
                              \o get_line_ending(CurrentLine) ]_vars

\* filter_code has handled the last line of its input.
EndOfPass == pc = "filter_code" /\ line_number > Len(ReadLines(source))

\* C5: no filter_code pass ends with a PendingFix still open: every
\* PendingFix opened has closed before the end of the input, so the lines
\* it accumulated have been emitted.
C5_PendingFixCloses == EndOfPass => ~result.pending

\* The analyzer fails on the text: it raises, or it cannot parse it.
AnalyzerFails(text) == analyzer_raises \/ ~Compiles(text)

\* C6: when the analyzer fails on the source, fix_code returns the source
\* unchanged.
C6_FailureUnchanged ==
    (FirstReturn /\ AnalyzerFails(original)) => filtered_source = original

\* C7: while no PendingFix is active, filter_code emits a line that holds
\* "#" unchanged, whatever is marked at its line number.
C7_CommentLineUnchanged ==
    [][ (FilterCodeStep /\ ~result.pending /\ HasChar(HASH, CurrentLine))
        => /\ result' = TextResult(CurrentLine)
           /\ yielded' = yielded \o CurrentLine ]_vars

\* A one-line source whose line holds "#" and is marked as an unused import
\* has been emitted unchanged.
C7_Witness ==
    /\ pc = "filter_code"
    /\ source = ImportOsNoqa
    /\ line_number = 2
    /\ 1 \in marks.marked_import_line_numbers
    /\ yielded = ImportOsNoqa

\* The safe set of the policy, for the caller's additional imports.
SafeSet(additional_imports) ==
    ((StandardPackageNames \ {"antigravity", "rlcompleter", "this"})
        \cup BINARY_IMPORTS)
    \cup {Spell(additional_imports[i]) : i \in DOMAIN additional_imports}

\* The line is a flagged import on one line that is not a plain import of
\* several modules.
SingleLineImport ==
    /\ ~result.pending
    /\ ~HasChar(HASH, CurrentLine)
    /\ line_number \in marks.marked_import_line_numbers
    /\ ~multiline_import(CurrentLine, previous_line)
    /\ ~(HasChar(",", CurrentLine) /\ ~StartsWith(CurrentLine, "from"))

\* C8: a flagged single-line import is edited if and only if
\* remove_all_unused_imports is set or its top-level package is in the safe
\* set: the standard library without antigravity, rlcompleter and this, the
\* binary allowlist, and the caller's additional imports.
C8_SafetyPolicy ==
    [][ (FilterCodeStep /\ SingleLineImport)
        => /\ ~result'.pending
           /\ (result'.text # CurrentLine
                 <=> \/ opts.remove_all_unused_imports
                     \/ extract_package_name(CurrentLine)
                            \in SafeSet(opts.additional_imports)) ]_vars

\* `import this`, marked as unused, has been left unchanged, and so has been
\* `import mylib`; `import os` has been replaced.
C8_Witness ==
    /\ pc = "filter_code"
    /\ ~opts.remove_all_unused_imports
    /\ source = ImportThis \o ImportOs
    /\ marks.marked_import_line_numbers = {1, 2}
    /\ line_number = 3
    /\ yielded = ImportThis \o <<"pass", NL>>

\* C9: run without --remove-all-unused-imports and without --imports on a
\* file that holds an unused `from . import name`, the command line leaves
\* the file unchanged and writes no diff.
C9_RelativeImportKept ==
    ( /\ args.entry = "_main" /\ pc = "exit"
      /\ ~args.has_imports /\ ~args.remove_all_unused_imports
      /\ original = FromDotImport )
    => /\ file = original
       /\ standard_out = IF args.write_to_stdout THEN original ELSE <<>>

\* C10: the command line leaves a file that holds `# autoflake: skip_file`
\* unchanged, and with --stdout it writes the text of the file.
C10_SkipFileUnchanged ==
    ( /\ args.entry = "_main" /\ pc = "exit"
      /\ \E i \in DOMAIN original : original[i] = SkipComment )
    => /\ file = original
       /\ args.write_to_stdout => standard_out = original


\* filter_unused_variable has returned from a call on the assignment of rhs
\* to the single target x, on a line of its own that no backslash continues.
ReturnedFromAssignment(indentation, rhs, ending) ==
    /\ call.function = "filter_unused_variable" /\ value.returned
    /\ call.line = Assignment(indentation, <<"x">>, rhs, <<>>, ending)
    /\ ~EndsWithBackslash(call.previous_line)

RECURSIVE Surviving(_, _)
Surviving(list, unused_module) ==
    IF list = <<>> THEN <<>>
    ELSE (IF InList(<<"os", ".", ImportedNames[list[1]]>>, unused_module)
          THEN <<>> ELSE <<list[1]>>)
         \o Surviving(Tail(list), unused_module)

\* C18: filter_from_import keeps the surviving names of a from-import in
\* their original left-to-right order: it removes exactly the names whose
\* full name is in the unused set, returns the line unchanged when the unused
\* set is empty, and returns indentation + "pass" + line ending when every
\* name is unused.
C18_FromImportKeepsOrder ==
    \A indentation \in Indentations, list \in NameLists, ending \in Endings :
        ( /\ call.function = "filter_from_import" /\ value.returned
          /\ call.line = indentation \o <<"from", SP, "os", SP, "import", SP>>
                          \o CommaList(list) \o ending )
        => value.value =
               IF Surviving(list, call.unused_module) = <<>>
               THEN indentation \o <<"pass">> \o ending
               ELSE indentation \o <<"from", SP, "os", SP, "import", SP>>
                    \o CommaList(Surviving(list, call.unused_module)) \o ending

\* C19: break_up_import turns import a, b, c with a line ending into one
\* import line per module, each with the original indentation and line
\* ending, in the order of the original comma list; a line without a line
\* ending is returned unchanged.
C19_BreakUpKeepsOrder ==
    \A indentation \in Indentations, list \in NameLists, ending \in Endings :
        ( /\ call.function = "break_up_import" /\ value.returned
          /\ call.line = indentation \o <<"import", SP>> \o CommaList(list) \o ending )
        => value.value =
               IF ending = <<>> THEN call.line
               ELSE Join([ i \in DOMAIN list |->
                              indentation \o <<"import", SP, ImportedNames[list[i]]>>
                              \o ending ])

\* The names of the list that are not in the removal set, in the order of
\* the list.
RECURSIVE Survivors(_, _, _)
Survivors(list, prefix, remove) ==
    IF list = <<>> THEN <<>>
    ELSE (IF InList(prefix \o <<ImportedNames[list[1]]>>, remove)
          THEN <<>> ELSE <<ImportedNames[list[1]]>>)
         \o Survivors(Tail(list), prefix, remove)

\* The module entries of an import statement, in order.
EntriesOf(text) ==
    SelectSeq(text, LAMBDA a : \E i \in DOMAIN ImportedNames : a = ImportedNames[i])

\* The import list can stand as it is: it is closed by a parenthesis, or it
\* needs none (no comma at its end, every line but the last continued by a
\* backslash).
ParenthesisKept(text) ==
    \/ (HasChar("(", text) /\ HasChar(")", text))
    \/ /\ ~HasChar("(", text) /\ ~HasChar(")", text)
       /\ RStrip(text)[Len(RStrip(text))] # ","
       /\ \A i \in 1..(Len(ReadLines(text)) - 1) : EndsWithBackslash(ReadLines(text)[i])

\* FilterMultilineImport has returned the fixed text of the import list laid
\* out over several lines.
FixedImport(shape, list) ==
    /\ call.function = "FilterMultilineImport" /\ value.returned
    /\ call.lines = ReadLines(shape[1].head \o LaidOut(shape[2], list))
    /\ ~value.value.pending

\* The removal set of the call: the unused modules; of a plain import, whose
\* modules here are not standard ones, none unless all unused imports are
\* removed.
RemovalSet(statement) ==
    IF call.remove_all_unused_imports \/ statement.prefix # <<>>
    THEN call.unused_module ELSE <<>>

\* C20: for a multi-line import that is not given up, fix outputs exactly
\* the input's module entries minus those whose full name is in the removal
\* set, in their original order (no name added, duplicated or reordered, no
\* more entries than the input has), and it keeps the closing parenthesis
\* when a survivor needs it.
C20_FixKeepsEntries ==
    \A shape \in Shapes, list \in NameLists :
        FixedImport(shape, list)
        => /\ EntriesOf(value.value.text)
                = Survivors(list, shape[1].prefix, RemovalSet(shape[1]))
           /\ Len(EntriesOf(value.value.text)) <= Len(list)
           /\ EntriesOf(value.value.text) # <<>> => ParenthesisKept(value.value.text)

(***************************************************************************)
(* Duplicate keys                                                          *)
(***************************************************************************)
\* The keys the messages of the pass flag as repeated.
FlaggedKeys ==
    {marks.messages[i].arg : i \in {j \in DOMAIN marks.messages :
        marks.messages[j].kind = MultiValueRepeatedKeyLiteral}}

\* The group of a key: the line numbers flagged for it.
FlaggedLines(key) ==
    {marks.messages[i].lineno : i \in {j \in DOMAIN marks.messages :
        /\ marks.messages[j].kind = MultiValueRepeatedKeyLiteral
        /\ marks.messages[j].arg = key}}

\* Every flagged line of the key is a simple entry with that key.
GroupVerified(key) ==
    \A l \in FlaggedLines(key) :
        dict_entry_has_key(SplitOn(source, NL)[l], key)

RemovingDuplicateKeys == pc = "filter_code" /\ opts.remove_duplicate_keys

\* C11: in a pass that removes duplicate keys, the flagged lines of a key
\* are all marked when every one of them is a simple entry with that key,
\* and none of them is marked when one of them is not; only flagged lines
\* are marked; a flagged line of a group that failed is emitted unchanged.
C11_GroupsAllOrNothing ==
    /\ [](RemovingDuplicateKeys =>
            /\ \A key \in FlaggedKeys :
                  IF GroupVerified(key)
                  THEN FlaggedLines(key) \subseteq marks.marked_key_line_numbers
                  ELSE FlaggedLines(key) \cap marks.marked_key_line_numbers = {}
            /\ marks.marked_key_line_numbers
                  \subseteq UNION {FlaggedLines(key) : key \in FlaggedKeys})
    /\ [][ (/\ FilterCodeStep
            /\ opts.remove_duplicate_keys
            /\ \E key \in FlaggedKeys :
                  line_number \in FlaggedLines(key) /\ ~GroupVerified(key))
           => yielded' = yielded \o CurrentLine ]_vars

\* Two groups in one display: the lines of "x" are flagged and one of them
\* holds a comment, the lines of "y" are flagged and simple. The pass has
\* kept both lines of "x" and deleted the first line of "y".
C11_Witness ==
    /\ RemovingDuplicateKeys
    /\ source = DictOpen \o KeyX1 \o KeyX2Noqa \o KeyY1 \o KeyY2 \o DictClose
    /\ FlaggedLines(<<StrX>>) = {2, 3}
    /\ FlaggedLines(<<StrY>>) = {4, 5}
    /\ marks.marked_key_line_numbers = {4, 5}
    /\ line_number = 6
    /\ yielded = DictOpen \o KeyX1 \o KeyX2Noqa \o KeyY2

\* The entries of the dict display of a text, in order: key and value.
EntriesIn(text) ==
    LET entries == DictEntries(DisplayOf(text, 1))
    IN [i \in DOMAIN entries.keys |-> <<entries.keys[i], entries.values[i]>>]

DistinctKeys(text) == {EntriesIn(text)[i][1] : i \in DOMAIN EntriesIn(text)}

Occurrences(text, key) ==
    {i \in DOMAIN EntriesIn(text) : EntriesIn(text)[i][1] = key}

LastOccurrence(text, key) ==
    EntriesIn(text)[CHOOSE i \in Occurrences(text, key) :
                        \A j \in Occurrences(text, key) : j <= i]

\* The keys of the groups that are flagged and verified in the text.
VerifiedKeys(text) ==
    LET messages == Pyflakes(text)
    IN {messages[i].arg : i \in {j \in DOMAIN messages :
            messages[j].lineno \in duplicate_key_line_numbers(messages, text)}}

\* fix_code has returned from a call that removes duplicate keys.
RemovedDuplicateKeys == FirstReturn /\ opts.remove_duplicate_keys

\* filter_code deletes the line it is at.
DeletesLine == FilterCodeStep /\ ~result.pending /\ yielded' = yielded

\* C12 as stated: fix_code leaves one occurrence, the last, of every key
\* whose group is flagged and verified in the input, and the distinct keys
\* of the output are those of the input.
C12_AllButLastDeleted ==
    RemovedDuplicateKeys =>
        /\ \A key \in VerifiedKeys(original) :
              Cardinality(Occurrences(filtered_source, key)) = 1
        /\ DistinctKeys(filtered_source) = DistinctKeys(original)

\* C12, amended: a pass deletes a line for a duplicate key only when a
\* later line is flagged for the same key, so the last occurrence of a key
\* is never deleted; the output holds the distinct keys of the input, each
\* with the value of its last occurrence in the input; and no flagged and
\* verified group is left in the output.
C12_LastOccurrenceKept ==
    /\ [][ (DeletesLine /\ opts.remove_duplicate_keys)
           => \E key \in FlaggedKeys :
                 /\ line_number \in FlaggedLines(key)
                 /\ \E later \in FlaggedLines(key) : later > line_number ]_vars
    /\ [](RemovedDuplicateKeys =>
            /\ DistinctKeys(filtered_source) = DistinctKeys(original)
            /\ \A key \in DistinctKeys(original) :
                  LastOccurrence(filtered_source, key) = LastOccurrence(original, key)
            /\ VerifiedKeys(filtered_source) = {})

\* "x" occurs three times and its last two occurrences have the same value:
\* the first occurrence has been deleted and the two others remain.
C12_Witness ==
    /\ RemovedDuplicateKeys
    /\ original = DictOpen \o KeyX1 \o KeyX2 \o KeyX2 \o DictClose
    /\ filtered_source = DictOpen \o KeyX2 \o KeyX2 \o DictClose

(***************************************************************************)
(* Unused variables in a pass                                              *)
(***************************************************************************)
\* The line filter_code is at is marked as an unused variable and reaches
\* the branch of the unused variables.
AtUnusedVariable ==
    /\ FilterCodeStep
    /\ ~result.pending
    /\ ~HasChar(HASH, CurrentLine)
    /\ line_number \notin marks.marked_import_line_numbers
    /\ line_number \in marks.marked_variable_line_numbers

\* The physical line before the one filter_code is at.
PreviousPhysicalLine ==
    IF line_number = 1 THEN <<>> ELSE ReadLines(source)[line_number - 1]

\* C15: a line flagged as an unused variable is emitted unchanged when it
\* has several targets, holds ";" or a backslash, or follows a physical
\* line that ends with a backslash.
C15_ContinuationUnchanged ==
    [][ (/\ AtUnusedVariable
         /\ \/ Count("=", CurrentLine) # 1
            \/ HasChar(";", CurrentLine)
            \/ HasChar(BS, CurrentLine)
            \/ EndsWithBackslash(PreviousPhysicalLine))
        => yielded' = yielded \o CurrentLine ]_vars

\* The source fix_code was called with.
FixCodeInput == IF run = 2 THEN first_result ELSE original

HasKeyword(word, text) == \E i \in DOMAIN text : text[i] = word

\* The analyzer flags the line filter_code is at as an unused variable.
FlaggedUnusedVariable ==
    \E i \in DOMAIN marks.messages :
        /\ marks.messages[i].kind = UnusedVariable
        /\ marks.messages[i].lineno = line_number

\* C16: when the source fix_code is called with holds the keyword
\* nonlocal, no pass of the loop marks a line as an unused variable, and a
\* line the analyzer flags as an unused variable is emitted unchanged,
\* whatever remove_unused_variables and remove_rhs_for_unused_variables are.
C16_NonlocalNoVariableEdit ==
    /\ []((pc = "filter_code" /\ HasKeyword("nonlocal", FixCodeInput))
            => marks.marked_variable_line_numbers = {})
    /\ [][ (/\ FilterCodeStep
            /\ ~result.pending
            /\ HasKeyword("nonlocal", FixCodeInput)
            /\ FlaggedUnusedVariable)
           => yielded' = yielded \o CurrentLine ]_vars

\* x = 1 in f and x = 2 in g, where x is nonlocal, are flagged as unused
\* variables; the removal with its right-hand sides was asked for, and the
\* pass has emitted the source as it is.
C16_Witness ==
    /\ pc = "filter_code"
    /\ original = DefF \o IndXEq1 \o IndDefG \o Ind2NonlocalX \o Ind2XEq2
    /\ source = original
    /\ opts.remove_unused_variables
    /\ opts.remove_rhs_for_unused_variables
    /\ unused_variable_line_numbers(marks.messages) = {2, 5}
    /\ line_number = 6
    /\ yielded = original

(***************************************************************************)
(* Star imports in a pass                                                  *)
(***************************************************************************)
\* The lines of the pass that carry a star-import-used message.
StarImportLines ==
    {marks.messages[i].lineno : i \in {j \in DOMAIN marks.messages :
        marks.messages[j].kind = ImportStarUsed}}

\* The names of the undefined-name messages of the pass.
ReportedNames ==
    {marks.messages[i].arg : i \in {j \in DOMAIN marks.messages :
        marks.messages[j].kind = ImportStarUsage}}

\* The conditions of the expansion.
MayExpand ==
    /\ opts.expand_star_imports
    /\ ~HasKeyword("__all__", source)
    /\ ~HasKeyword("del", source)
    /\ Cardinality(StarImportLines) = 1
    /\ ReportedNames # {}

\* The line with its "*" replaced by the reported names, each once, in
\* order, joined by ", ".
Expanded(line) ==
    LET names == SelectSeq(AtomOrder, LAMBDA a : <<a>> \in ReportedNames)
    IN ReplaceStar(line, JoinWith(<<",", SP>>,
                                  [i \in DOMAIN names |-> <<names[i]>>]))

\* filter_code is at a star-import line, outside a PendingFix.
AtStarImport ==
    FilterCodeStep /\ ~result.pending /\ line_number \in StarImportLines

\* C17 as stated: a star-import line is emitted expanded or unchanged when
\* the conditions of the expansion hold, and unchanged in every other case.
C17_StarImportExpandedOrUnchanged ==
    [][ AtStarImport =>
          IF MayExpand
          THEN \/ yielded' = yielded \o Expanded(CurrentLine)
               \/ yielded' = yielded \o CurrentLine
          ELSE yielded' = yielded \o CurrentLine ]_vars

\* C17, amended: when the conditions of the expansion hold, a star-import
\* line is emitted expanded, or unchanged if it holds "#"; in every other
\* case it is never expanded: it is emitted unchanged, unless it is marked
\* as an unused import, and then the rule of the unused imports replaces
\* it.
C17_StarImportExpansion ==
    [][ AtStarImport =>
          IF MayExpand
          THEN IF HasChar(HASH, CurrentLine)
               THEN yielded' = yielded \o CurrentLine
               ELSE yielded' = yielded \o Expanded(CurrentLine)
          ELSE \/ yielded' = yielded \o CurrentLine
               \/ /\ line_number \in marks.marked_import_line_numbers
                  /\ yielded' = yielded \o Pass ]_vars

\* The one star import of a source that uses sep, then path, has been
\* expanded to "path, sep".
C17_Witness ==
    /\ pc = "filter_code"
    /\ opts.expand_star_imports
    /\ source = FromOsImportStar \o XEqSep \o YEqPath
    /\ line_number = 2
    /\ yielded = <<"from", SP, "os", SP, "import", SP, "path", ",", SP, "sep", NL>>

(***************************************************************************)
(* FilterMultilineImport: the statement left as it is                      *)
(***************************************************************************)
\* FilterMultilineImport has consumed every line of the call and returned a
\* text.
ClosedImport ==
    /\ call.function = "FilterMultilineImport" /\ value.returned
    /\ ~value.value.pending

\* The package of the from-import of the call; "" for a plain import.
BaseOfCall == IF call.lines[1][1] = "from" THEN call.lines[1][3] ELSE ""

\* The conditions under which the statement is given up.
GivenUp ==
    \/ \E i \in DOMAIN call.lines :
           \/ HasChar(";", call.lines[i]) \/ HasChar(":", call.lines[i])
           \/ HasChar(HASH, call.lines[i])
    \/ HasChar(BS, call.previous_line)
    \/ (BaseOfCall = "mylib" /\ ~call.remove_all_unused_imports)

\* No module of the statement is to be discarded.
NothingDiscarded ==
    \A i \in DOMAIN call.unused_module :
        \A j \in DOMAIN call.lines :
            ~HasWord(call.unused_module[i][Len(call.unused_module[i])], call.lines[j])

\* C21: when FilterMultilineImport closes after giving up, or with no
\* module discarded, the text it returns is the concatenation of the lines
\* it consumed.
C21_GiveUpVerbatim ==
    (ClosedImport /\ (GivenUp \/ NothingDiscarded))
        => value.value.text = Join(call.lines)

(***************************************************************************)
(* Useless pass statements                                                 *)
(***************************************************************************)
\* filter_useless_pass has returned.
FilteredPass == call.function = "filter_useless_pass" /\ value.returned

PassLines == ReadLines(call.source)

\* The line numbers filter_useless_pass has left out.
Removed ==
    useless_pass_line_numbers(call.source, call.ignore_pass_after_docstring)

IsPassLine(r) == Strip(PassLines[r]) = <<"pass">>

\* Line r is a pass and the last line before it that is not blank ends a
\* docstring.
FollowsDocstring(r) ==
    /\ IsPassLine(r)
    /\ \E d \in 1..(r - 1) :
           /\ EndsWithTripleQuote(PassLines[d])
           /\ \A b \in (d + 1)..(r - 1) : PassLines[b] = BlankLine

\* No statement on the next line makes the pass of line r a leading one.
NotLeading(r) ==
    \/ r = Len(PassLines)
    \/ PassLines[r + 1] = BlankLine
    \/ IsPassLine(r + 1)

\* C22: with ignore_pass_after_docstring, a pass that follows a docstring,
\* directly or after blank lines, is kept; a pass that follows another
\* statement of its block is still removed.
C22_PassAfterDocstringKept ==
    (FilteredPass /\ call.ignore_pass_after_docstring
                  /\ generate_tokens(call.source).ok)
        => /\ value.value = DropLines(PassLines, 1, Removed)
           /\ \A r \in DOMAIN PassLines :
                 /\ (FollowsDocstring(r) /\ NotLeading(r)) => r \notin Removed
                 /\ (r > 1 /\ PassLines[r] = IndPass /\ PassLines[r - 1] = IndXEq1)
                       => r \in Removed

\* C23: when the tokenizer fails on the source, filter_useless_pass returns
\* the source as it is.
C23_TokenizerFailureUnchanged ==
    (FilteredPass /\ ~generate_tokens(call.source).ok)
        => value.value = call.source

\* The pass of line 3 follows a statement of its block, and the last line
\* opens a parenthesis that nothing closes: the source has been returned
\* with its pass.
C23_Witness ==
    /\ FilteredPass
    /\ call.source = DefF \o IndXEq1 \o IndPass \o IndXEqOpen
    /\ ~generate_tokens(call.source).ok
    /\ \E i \in DOMAIN generate_tokens(call.source).toks :
           /\ generate_tokens(call.source).toks[i].row = 3
           /\ generate_tokens(call.source).toks[i].type = NAME
    /\ value.value = call.source

PassTokens == generate_tokens(call.source).toks

\* The pass of line r is the first statement of its block: the token before
\* it is INDENT.
FirstOfBlock(r) ==
    /\ IsPassLine(r)
    /\ \E i \in DOMAIN PassTokens :
           /\ i > 1
           /\ PassTokens[i].row = r
           /\ PassTokens[i].type = NAME
           /\ PassTokens[i - 1].type = INDENT

\* The line after line r is not a pass, is indented as line r is and has a
\* name, a number or a string starting on it.
FollowedByStatement(r) ==
    /\ r < Len(PassLines)
    /\ ~IsPassLine(r + 1)
    /\ get_indentation(PassLines[r + 1]) = get_indentation(PassLines[r])
    /\ \E i \in DOMAIN PassTokens :
           /\ PassTokens[i].row = r + 1
           /\ PassTokens[i].type \in {NAME, NUMBER, STRING_}

\* C27 as stated: a pass that is the first statement of its block is never
\* marked for removal, whatever follows it.
C27_FirstPassNeverMarked ==
    (FilteredPass /\ generate_tokens(call.source).ok)
        => \A r \in DOMAIN PassLines : FirstOfBlock(r) => r \notin Removed

\* C27: a pass that is the first statement of its block is marked for
\* removal exactly when the next line is a statement of the same block
\* that is not a pass.
C27_FirstPassMarkedOnlyAsLeading ==
    (FilteredPass /\ generate_tokens(call.source).ok)
        => \A r \in DOMAIN PassLines :
              FirstOfBlock(r) => (r \in Removed <=> FollowedByStatement(r))

\* A first pass followed by another pass has been kept, and a first pass
\* followed by a docstring has been removed.
C27_Witness ==
    /\ FilteredPass
    /\ generate_tokens(call.source).ok
    /\ \E r \in DOMAIN PassLines :
           FirstOfBlock(r) /\ ~FollowedByStatement(r)
                           /\ r < Len(PassLines) /\ r \notin Removed
    /\ \E r \in DOMAIN PassLines :
           /\ FirstOfBlock(r) /\ r \in Removed
           /\ PassLines[r + 1] = IndDocString

Depth(r) == Len(get_indentation(PassLines[r]))

Blank(r) == Strip(PassLines[r]) = <<>>

\* Line r is indented deeper than the last line before it that is not
\* blank: a block starts there.
OpensBlock(r) ==
    /\ ~Blank(r)
    /\ \E d \in 1..(r - 1) :
           /\ ~Blank(d)
           /\ Depth(d) < Depth(r)
           /\ \A b \in (d + 1)..(r - 1) : Blank(b)

\* The lines where the statements of the block that starts at line r start.
StatementsOf(r) ==
    { s \in r..Len(PassLines) :
        /\ ~Blank(s)
        /\ Depth(s) = Depth(r)
        /\ \A b \in r..s : Blank(b) \/ Depth(b) >= Depth(r) }

\* C30: filter_useless_pass leaves at least one statement in every block of
\* a source that tokenizes, and of a block made of pass lines it leaves the
\* first one and nothing else.
C30_NoBlockEmptied ==
    (FilteredPass /\ generate_tokens(call.source).ok)
        => /\ value.value = DropLines(PassLines, 1, Removed)
           /\ \A r \in DOMAIN PassLines :
                 OpensBlock(r)
                     => /\ StatementsOf(r) \ Removed # {}
                        /\ (\A s \in StatementsOf(r) : IsPassLine(s))
                               => StatementsOf(r) \ Removed = {r}

\* A block of three pass lines has been reduced to its first line.
C30_Witness ==
    /\ FilteredPass
    /\ call.source = DefF \o IndPass \o IndPass \o IndPass
    /\ OpensBlock(2)
    /\ StatementsOf(2) = {2, 3, 4}
    /\ value.value = DefF \o IndPass

(***************************************************************************)
(* FilterMultilineImport: where the statement ends                         *)
(***************************************************************************)
\* The filter after the first k lines of the call.
FedUpTo(k) ==
    Feed(FilterMultilineImportCall(
             FilterMultilineImportInit(call.lines[1], call.unused_module,
                                       call.remove_all_unused_imports,
                                       SAFE_IMPORTS, call.previous_line),
             <<>>),
         SubSeq(call.lines, 2, k))

\* The statement closes on line k of the call.
ClosesOn(k) ==
    /\ ~FedUpTo(k).pending
    /\ k > 1 => FedUpTo(k - 1).pending

\* The character c is on the line, with no "#" before it.
OutsideComment(c, line) ==
    \E i \in DOMAIN line :
        /\ c \in CharsOf(line[i])
        /\ line[i] \notin Comments
        /\ \A j \in 1..(i - 1) : HASH \notin CharsOf(line[j])

\* The line ends the statement: a ")" for a parenthesized import, no
\* backslash for the others.
ClosingLine(line) ==
    IF HasChar("(", call.lines[1]) THEN OutsideComment(")", line)
    ELSE ~OutsideComment(BS, line)

\* C28: the statement closes on the first of its lines that holds a ")"
\* outside a comment when it is parenthesized, no backslash outside a
\* comment when it is not; that line may be the first one.
C28_ClosesOnFirstClosingLine ==
    (call.function = "FilterMultilineImport" /\ value.returned)
        => \A k \in DOMAIN call.lines :
              ClosesOn(k) <=> /\ ClosingLine(call.lines[k])
                              /\ \A j \in 1..(k - 1) : ~ClosingLine(call.lines[j])

(***************************************************************************)
(* A run over several files                                                *)
(***************************************************************************)
\* _main has returned after going through the files.
RunOver == files # <<>> /\ pc = "exit" /\ \A i \in DOMAIN files : files[i].state = "got"

CheckMode == args.check \/ args.check_diff

\* fix_code changes the text the file had.
NeedsChanges(f) ==
    f.readable /\ fix_code(f.source, FixFileOpts(args)) # f.source

\* C24: in check mode no file is ever written, --in-place or not, fix_file
\* returns 1 for the files that fix_code changes and 0 for the others, and
\* the exit status of the run is not 0 exactly when a file needs changes or
\* could not be read.
C24_CheckModeNeverWrites ==
    (files # <<>> /\ CheckMode)
        => /\ \A i \in DOMAIN files :
                 /\ files[i].text = files[i].source
                 /\ (files[i].readable /\ files[i].state \in {"finished", "got"})
                       => (files[i].returned = 1 <=> NeedsChanges(files[i]))
                 /\ files[i].returned \in {-1, 0, 1}
           /\ RunOver
                 => (exit_status # 0
                        <=> \E i \in DOMAIN files :
                               NeedsChanges(files[i]) \/ ~files[i].readable)

\* A run with --check and --in-place over a file with an unused import and
\* a clean one has returned 1, and a run over clean files has returned 0.
C24_Witness ==
    /\ RunOver
    /\ args.check /\ args.in_place
    /\ Len(files) = 2
    /\ files[1].source = ImportOs /\ files[1].returned = 1
    /\ files[1].text = ImportOs
    /\ files[2].source = XEq1 /\ files[2].returned = 0
    /\ exit_status = 1

\* C25: a file that cannot be read is logged and makes the exit status 1,
\* and every other file of the run is still processed as it is on its own,
\* in the loop and in the pool.
C25_UnreadableFileOnly ==
    RunOver
        => /\ \A i \in DOMAIN files :
                 IF files[i].readable
                 THEN /\ ~files[i].raised
                      /\ files[i].returned = _fix_file(files[i].source, args).returned
                      /\ files[i].text = _fix_file(files[i].source, args).text
                 ELSE /\ exit_status = 1
                      /\ \E k \in DOMAIN standard_error :
                            standard_error[k] = OSErrorLogged(i)
           /\ Len(standard_error)
                  = Cardinality({ i \in DOMAIN files : ~files[i].readable })

\* In the pool, the first file of three could not be read, and the third
\* one has been fixed in place after that.
C25_Witness ==
    /\ RunOver
    /\ args.jobs = 2 /\ ~args.standard_out_given /\ args.in_place
    /\ ~CheckMode
    /\ Len(files) = 3
    /\ ~files[1].readable
    /\ files[3].source = ImportOs /\ files[3].text = <<>>
    /\ standard_error = << OSErrorLogged(1) >>
    /\ exit_status = 1

(***************************************************************************)
(* What a pass of fix_code adds                                            *)
(***************************************************************************)
\* len(text): the characters of the atoms.
RECURSIVE Characters(_)
Characters(text) ==
    IF text = <<>> THEN 0 ELSE Len(text[1]) + Characters(Tail(text))

\* The text the pass that ends makes of source.
PassOutput ==
    filter_useless_pass(yielded, opts.ignore_pass_statements,
                        opts.ignore_pass_after_docstring)

NoLonger(new, old) ==
    /\ Len(ReadLines(new)) <= Len(ReadLines(old))
    /\ Characters(new) <= Characters(old)

\* A line of the pass is a plain import of several modules on one line that
\* the analyzer has flagged: filter_unused_import gives it to
\* break_up_import.
BrokenUp ==
    \E n \in DOMAIN ReadLines(source) :
        /\ n \in marks.marked_import_line_numbers
        /\ HasChar(",", ReadLines(source)[n])
        /\ ~HasChar(HASH, ReadLines(source)[n])
        /\ ~StartsWith(ReadLines(source)[n], "from")
        /\ ~multiline_import(ReadLines(source)[n],
                             IF n = 1 THEN <<>> ELSE ReadLines(source)[n - 1])

Dispatched ==
    /\ pc = "filter_code"
    /\ line_number <= Len(ReadLines(source))
    /\ ~result.pending
    /\ ~HasChar(HASH, CurrentLine)

\* filter_unused_import goes past multiline_import with the line.
SingleLine ==
    /\ Dispatched
    /\ line_number \in marks.marked_import_line_numbers
    /\ ~StartsWith(CurrentLine, ">")
    /\ ~multiline_import(CurrentLine, previous_line)

PlainWithComma ==
    HasChar(",", CurrentLine) /\ ~StartsWith(CurrentLine, "from")

\* filter_unused_import goes on to filter_from_import or to `pass`.
Removable ==
    \/ opts.remove_all_unused_imports
    \/ extract_package_name(CurrentLine) \in marks.imports

\* filter_unused_variable reaches line.split("=").
SplitAssignment ==
    /\ Dispatched
    /\ line_number \notin marks.marked_import_line_numbers
    /\ line_number \in marks.marked_variable_line_numbers
    /\ ~MatchesExcept(CurrentLine)
    /\ ~multiline_statement(CurrentLine, <<>>)
    /\ Count("=", CurrentLine) = 1

\* C29: the assert statements of break_up_import, extract_package_name,
\* filter_unused_import and filter_unused_variable hold for every line
\* that filter_code hands to them.
C29_AssertsHold ==
    /\ (SingleLine /\ PlainWithComma) => break_up_import_asserts(CurrentLine)
    /\ (SingleLine /\ ~PlainWithComma)
          => /\ extract_package_name_asserts(CurrentLine)
             /\ (Removable /\ HasChar(",", CurrentLine))
                   => StartsWith(CurrentLine, "from")
    /\ SplitAssignment => Len(SplitOn(CurrentLine, "=")) = 2

\* filter_code is at a flagged plain import of two modules on one line,
\* which goes to break_up_import.
C29_Witness ==
    /\ SingleLine
    /\ PlainWithComma
    /\ CurrentLine = <<"import", SP, "os", ",", SP, "this", NL>>
    /\ break_up_import_asserts(CurrentLine)
    /\ FilterCodeLineResult(CurrentLine, line_number, result, previous_line,
                            marks, opts).text
           = ImportOs \o ImportThis
====
